---- MODULE Spec2Model ----
(***************************************************************************)
(* State-machine model of the RVM execution core                           *)
(* (regorus-src/src/rvm/vm.rs): the dispatcher `jump_to`, the rule-call    *)
(* driver, the condition handler, the loop and comprehension engines and   *)
(* the virtual data document lookup.                                       *)
(*                                                                         *)
(* A state of the model is the VM between two host calls ("idle"), at the  *)
(* top of the dispatcher's `while` loop ("running"), or at the point where *)
(* one invocation of `jump_to` has just returned to its caller             *)
(* ("returned").  One action is one host call, one dispatched instruction  *)
(* or one step of the rule-definition driver.                              *)
(*                                                                         *)
(* Register, literal, rule and program-counter indices are 0-based as in   *)
(* the source; TLA+ sequences are 1-based, hence the "+ 1" in accesses.    *)
(***************************************************************************)
EXTENDS Integers, Sequences, FiniteSets, TLC

(***************************************************************************)
(* Values (crate::value::Value).  Every value is a record [k, v] whose tag *)
(* k decides the shape of the payload v.                                   *)
(***************************************************************************)
Undefined == [k |-> "undefined", v |-> 0]
Null == [k |-> "null", v |-> 0]
Bool(b) == [k |-> "bool", v |-> b]
Rat(n, d) == [k |-> "number", v |-> <<n, d>>]
Num(n) == Rat(n, 1)
Str(s) == [k |-> "string", v |-> s]
Arr(items) == [k |-> "array", v |-> items]
SetOf(items) == [k |-> "set", v |-> items]
Obj(pairs) == [k |-> "object", v |-> pairs]
None == [k |-> "none", v |-> 0]

new_set == SetOf({})
new_object == Obj({})
new_array == Arr(<<>>)

IsNumber(x) == x.k = "number"
IsObject(x) == x.k = "object"
IsArray(x) == x.k = "array"
IsSet(x) == x.k = "set"

\* Errors (enum VmError) share the [k, v] shape so that outcomes compare.
Err(name, args) == [k |-> "error", v |-> <<name>> \o args]
IsErr(x) == x.k = "error"
ErrName(x) == x.v[1]

\* Object as a set of <<key, value>> pairs with at most one pair per key.
ObjKeys(o) == {p[1] : p \in o.v}
ObjGet(o, key) == IF key \in ObjKeys(o) THEN (CHOOSE p \in o.v : p[1] = key)[2] ELSE Undefined
ObjInsert(o, key, val) == Obj({p \in o.v : p[1] # key} \cup {<<key, val>>})

\* Numbers (crate::number::Number) as normalised fractions n/d with d > 0.
RECURSIVE Gcd(_, _)
Gcd(a, b) == IF b = 0 THEN a ELSE Gcd(b, a % b)
Abs(a) == IF a < 0 THEN 0 - a ELSE a
Normal(n, d) ==
    LET g == Gcd(Abs(n), Abs(d))
        sg == IF d < 0 THEN 0 - 1 ELSE 1
    IN  Rat(sg * (n \div g), sg * (d \div g))
NumAdd(x, y) == Normal(x.v[1] * y.v[2] + y.v[1] * x.v[2], x.v[2] * y.v[2])
NumSub(x, y) == Normal(x.v[1] * y.v[2] - y.v[1] * x.v[2], x.v[2] * y.v[2])
NumMul(x, y) == Normal(x.v[1] * y.v[1], x.v[2] * y.v[2])
NumDivide(x, y) == Normal(x.v[1] * y.v[2], x.v[2] * y.v[1])
is_integer(x) == x.v[2] = 1
\* truncated remainder of two integers, the sign follows the dividend
NumModulo(x, y) ==
    LET a == x.v[1]
        b == Abs(y.v[1])
    IN  IF a >= 0 THEN Num(a % b) ELSE Num(0 - ((0 - a) % b))
NumLess(x, y) == x.v[1] * y.v[2] < y.v[1] * x.v[2]

\* The strings that occur in programs, data and inputs, in ascending order.
StringOrder == <<"a", "admin", "b", "c", "data", "guest", "items", "p", "q", "r", "role", "x", "xs">>
StrRank(s) == CHOOSE i \in 1..Len(StringOrder) : StringOrder[i] = s

\* Total order on values (derived Ord of Value): the variant decides first.
KindRank(x) ==
    CASE x.k = "null" -> 0
      [] x.k = "bool" -> 1
      [] x.k = "number" -> 2
      [] x.k = "string" -> 3
      [] x.k = "array" -> 4
      [] x.k = "object" -> 5
      [] x.k = "set" -> 6
      [] OTHER -> 7

RECURSIVE ValueLess(_, _), SeqLess(_, _), SortedItems(_)
\* the items of a finite set of values in ascending order
SortedItems(S) ==
    IF S = {} THEN <<>>
    ELSE LET m == CHOOSE x \in S : \A y \in S \ {x} : ValueLess(x, y)
         IN  <<m>> \o SortedItems(S \ {m})
SeqLess(a, b) ==
    IF b = <<>> THEN FALSE
    ELSE IF a = <<>> THEN TRUE
    ELSE IF a[1] = b[1] THEN SeqLess(Tail(a), Tail(b))
    ELSE ValueLess(a[1], b[1])
ValueLess(x, y) ==
    IF KindRank(x) # KindRank(y) THEN KindRank(x) < KindRank(y)
    ELSE CASE x.k = "bool" -> (x.v = FALSE /\ y.v = TRUE)
           [] x.k = "number" -> NumLess(x, y)
           [] x.k = "string" -> StrRank(x.v) < StrRank(y.v)
           [] x.k = "array" -> SeqLess(x.v, y.v)
           [] x.k = "set" -> SeqLess(SortedItems(x.v), SortedItems(y.v))
           [] x.k = "object" ->
                SeqLess(SortedItems({Arr(<<p[1], p[2]>>) : p \in x.v}),
                        SortedItems({Arr(<<p[1], p[2]>>) : p \in y.v}))
           [] OTHER -> FALSE

\* container[key] (impl Index<&Value> for Value): Undefined on any miss.
ValueIndex(c, key) ==
    CASE IsObject(c) -> ObjGet(c, key)
      [] IsArray(c) ->
            IF IsNumber(key) /\ is_integer(key) /\ key.v[1] >= 0 /\ key.v[1] < Len(c.v)
            THEN c.v[key.v[1] + 1] ELSE Undefined
      [] IsSet(c) -> IF key \in c.v THEN key ELSE Undefined
      [] OTHER -> Undefined

RECURSIVE IndexPath(_, _)
IndexPath(c, path) == IF path = <<>> THEN c ELSE IndexPath(ValueIndex(c, path[1]), Tail(path))

(***************************************************************************)
(* Instructions (enum Instruction) and the program's side tables.          *)
(***************************************************************************)
ILoad(dest, literal_idx) == [op |-> "Load", dest |-> dest, literal_idx |-> literal_idx]
ILoadTrue(dest) == [op |-> "LoadTrue", dest |-> dest]
ILoadFalse(dest) == [op |-> "LoadFalse", dest |-> dest]
ILoadNull(dest) == [op |-> "LoadNull", dest |-> dest]
ILoadData(dest) == [op |-> "LoadData", dest |-> dest]
ILoadInput(dest) == [op |-> "LoadInput", dest |-> dest]
IMove(dest, src) == [op |-> "Move", dest |-> dest, src |-> src]
IBin(op, dest, left, right) == [op |-> op, dest |-> dest, left |-> left, right |-> right]
IFunctionCall(params_index) == [op |-> "FunctionCall", params_index |-> params_index]
IReturn(value) == [op |-> "Return", value |-> value]
ICallRule(dest, rule_index) == [op |-> "CallRule", dest |-> dest, rule_index |-> rule_index]
IRuleInit(result_reg, rule_index) ==
    [op |-> "RuleInit", result_reg |-> result_reg, rule_index |-> rule_index]
IDestructuringSuccess == [op |-> "DestructuringSuccess"]
IRuleReturn == [op |-> "RuleReturn"]
IObjectSet(obj, key, value) == [op |-> "ObjectSet", obj |-> obj, key |-> key, value |-> value]
IIndex(dest, container, key) ==
    [op |-> "Index", dest |-> dest, container |-> container, key |-> key]
IIndexLiteral(dest, container, literal_idx) ==
    [op |-> "IndexLiteral", dest |-> dest, container |-> container, literal_idx |-> literal_idx]
ISetAdd(set, value) == [op |-> "SetAdd", set |-> set, value |-> value]
IAssertCondition(condition) == [op |-> "AssertCondition", condition |-> condition]
IAssertNotUndefined(register) == [op |-> "AssertNotUndefined", register |-> register]
ILoopStart(params_index) == [op |-> "LoopStart", params_index |-> params_index]
ILoopNext(body_start, loop_end) ==
    [op |-> "LoopNext", body_start |-> body_start, loop_end |-> loop_end]
IHalt == [op |-> "Halt"]
IVirtualDataDocumentLookup(params_index) ==
    [op |-> "VirtualDataDocumentLookup", params_index |-> params_index]
IComprehensionBegin(params_index) == [op |-> "ComprehensionBegin", params_index |-> params_index]
IComprehensionYield(value_reg, key_reg) ==
    [op |-> "ComprehensionYield", value_reg |-> value_reg, key_reg |-> key_reg]
IComprehensionEnd == [op |-> "ComprehensionEnd"]
IObjectCreate(params_index) == [op |-> "ObjectCreate", params_index |-> params_index]
IArrayCreate(params_index) == [op |-> "ArrayCreate", params_index |-> params_index]
ISetCreate(params_index) == [op |-> "SetCreate", params_index |-> params_index]
IChainedIndex(params_index) == [op |-> "ChainedIndex", params_index |-> params_index]

ArithOps == {"Add", "Sub", "Mul", "Div", "Mod"}
CompareOps == {"Eq", "Ne", "Lt", "Le", "Gt", "Ge"}

\* Option<u32> / Option<u16> / Option<u8>::None in the side tables
NoIndex == 0 - 1

\* struct RuleInfo
RuleInfo(name, rule_type, definitions, destructuring_blocks, result_reg, num_registers, default_literal_index, function_info) ==
    [name |-> name, rule_type |-> rule_type, definitions |-> definitions,
     destructuring_blocks |-> destructuring_blocks, result_reg |-> result_reg,
     num_registers |-> num_registers, default_literal_index |-> default_literal_index,
     function_info |-> function_info]

\* struct LoopStartParams
LoopParams(mode, collection, key_reg, value_reg, result_reg, body_start, loop_end) ==
    [mode |-> mode, collection |-> collection, key_reg |-> key_reg, value_reg |-> value_reg,
     result_reg |-> result_reg, body_start |-> body_start, loop_end |-> loop_end]

\* struct FunctionCallParams
FunctionCallParams(dest, func_rule_index, args) ==
    [dest |-> dest, func_rule_index |-> func_rule_index, args |-> args, num_args |-> Len(args)]

\* struct ComprehensionBeginParams
ComprehensionBeginParams(mode, collection_reg, comprehension_end) ==
    [mode |-> mode, collection_reg |-> collection_reg, comprehension_end |-> comprehension_end]

\* enum LiteralOrRegister
Literal(idx) == [lit |-> TRUE, idx |-> idx]
Register(reg) == [lit |-> FALSE, idx |-> reg]

\* struct ArrayCreateParams / SetCreateParams
ElementsParams(dest, element_registers) == [dest |-> dest, element_registers |-> element_registers]

\* struct ObjectCreateParams: literal_key_field_pairs holds <<literal_idx, value_reg>>,
\* field_pairs holds <<key_reg, value_reg>>
ObjectCreateParams(dest, template_literal_idx, literal_key_field_pairs, field_pairs) ==
    [dest |-> dest, template_literal_idx |-> template_literal_idx,
     literal_key_field_pairs |-> literal_key_field_pairs, field_pairs |-> field_pairs]

\* struct ChainedIndexParams
ChainedIndexParams(dest, root, path_components) ==
    [dest |-> dest, root |-> root, path_components |-> path_components]

\* struct VirtualDataDocumentLookupParams
VirtualDataDocumentLookupParams(dest, path_components) ==
    [dest |-> dest, path_components |-> path_components]

(***************************************************************************)
(* The programs, data documents and inputs the VM is run on.               *)
(***************************************************************************)
Program(instructions, literals, rule_infos, loop_params, function_call_params, comprehension_begin_params, virtual_data_document_lookup_params, rule_tree, entry_points, main_entry_point, dispatch_window_size, data) ==
    [instructions |-> instructions, literals |-> literals, rule_infos |-> rule_infos,
     loop_params |-> loop_params, function_call_params |-> function_call_params,
     comprehension_begin_params |-> comprehension_begin_params,
     virtual_data_document_lookup_params |-> virtual_data_document_lookup_params,
     rule_tree |-> rule_tree, entry_points |-> entry_points,
     main_entry_point |-> main_entry_point,
     dispatch_window_size |-> dispatch_window_size, data |-> data,
     array_create_params |-> << >>, set_create_params |-> << >>,
     object_create_params |-> << >>, chained_index_params |-> << >>]

\* the parameter tables of the container-creating instructions
WithCreateParams(p, array_create_params, set_create_params, object_create_params) ==
    [p EXCEPT !.array_create_params = array_create_params,
              !.set_create_params = set_create_params,
              !.object_create_params = object_create_params]
WithChainedIndexParams(p, chained_index_params) ==
    [p EXCEPT !.chained_index_params = chained_index_params]

NoRuleTree == Obj({<<Str("data"), Obj({})>>})

\* default allow := false; allow { input.role == "admin" }
ProgDefault ==
    Program(
      << ICallRule(0, 0),                 \* 0  entry "main"
         IReturn(0),                      \* 1
         IRuleInit(0, 0),                 \* 2  body of rule 0
         ILoadInput(1),                   \* 3
         IIndexLiteral(2, 1, 0),          \* 4  input.role
         ILoad(3, 1),                     \* 5  "admin"
         IBin("Eq", 1, 2, 3),             \* 6
         IAssertCondition(1),             \* 7
         ILoadTrue(0),                    \* 8
         IRuleReturn                      \* 9
      >>,
      << Str("role"), Str("admin"), Bool(FALSE) >>,
      << RuleInfo("allow", "Complete", << <<2>> >>, << NoIndex >>, 0, 4, 2, NoIndex) >>,
      << >>, << >>, << >>, << >>, NoRuleTree,
      << <<"main", 0>> >>, 0, 2, Obj({}))

\* default sum := 0; sum := input.x + 1.  The entry point "tail" is the last
\* instruction of the program: the dispatcher runs off the end after the call.
ProgBudget ==
    Program(
      << ICallRule(0, 0),                 \* 0  entry "main"
         IReturn(0),                      \* 1
         IRuleInit(0, 0),                 \* 2  body of rule 0
         ILoadInput(1),                   \* 3
         IIndexLiteral(2, 1, 0),          \* 4  input.x
         ILoad(3, 1),                     \* 5  1
         IBin("Add", 0, 2, 3),            \* 6
         IRuleReturn,                     \* 7
         ICallRule(0, 0)                  \* 8  entry "tail"
      >>,
      << Str("x"), Num(1), Num(0) >>,
      << RuleInfo("sum", "Complete", << <<2>> >>, << NoIndex >>, 0, 4, 2, NoIndex) >>,
      << >>, << >>, << >>, << >>, NoRuleTree,
      << <<"main", 0>>, <<"tail", 8>> >>, 0, 2, Obj({}))

\* base := input.x; outer := base; f(a) := a.  base is called twice from the top
\* level and once from the body of outer; f is called twice.
ProgMemo ==
    Program(
      << ICallRule(0, 0),                 \* 0  entry "main"
         ICallRule(1, 0),                 \* 1
         ICallRule(2, 1),                 \* 2
         IFunctionCall(0),                \* 3  r3 := f(r0)
         IFunctionCall(0),                \* 4  r3 := f(r0)
         IReturn(2),                      \* 5
         IRuleInit(0, 0),                 \* 6  body of rule 0 (base)
         ILoadInput(1),                   \* 7
         IIndexLiteral(0, 1, 0),          \* 8  input.x
         IAssertNotUndefined(0),          \* 9
         IRuleReturn,                     \* 10
         IRuleInit(0, 1),                 \* 11 body of rule 1 (outer)
         ICallRule(1, 0),                 \* 12
         IMove(0, 1),                     \* 13
         IRuleReturn,                     \* 14
         IAssertNotUndefined(1),          \* 15 destructuring block of rule 2 (f)
         IDestructuringSuccess,           \* 16
         IRuleInit(0, 2),                 \* 17 body of rule 2 (f)
         IMove(0, 1),                     \* 18
         IRuleReturn,                     \* 19
         ICallRule(0, 1),                 \* 20 entry "outer"
         ICallRule(1, 0),                 \* 21
         IReturn(1)                       \* 22
      >>,
      << Str("x") >>,
      << RuleInfo("base", "Complete", << <<6>> >>, << NoIndex >>, 0, 2, NoIndex, NoIndex),
         RuleInfo("outer", "Complete", << <<11>> >>, << NoIndex >>, 0, 2, NoIndex, NoIndex),
         RuleInfo("f", "Complete", << <<17>> >>, << 15 >>, 0, 2, NoIndex, 0) >>,
      << >>, << FunctionCallParams(3, 2, <<0>>) >>, << >>, << >>, NoRuleTree,
      << <<"main", 0>>, <<"outer", 20>> >>, 0, 4, Obj({}))

\* default v := false; v := input.x, v := 1 (one definition, two bodies) and
\* v := input.x (a second definition); g(a) := a, g(a) := 1, g(a) := a.
ProgConsistency ==
    Program(
      << ICallRule(0, 0),                 \* 0  entry "main"
         ILoadInput(1),                   \* 1
         IIndexLiteral(1, 1, 0),          \* 2  input.x
         IFunctionCall(0),                \* 3  r2 := g(r1)
         IReturn(0),                      \* 4
         IRuleInit(0, 0),                 \* 5  rule 0 (v), definition 0, body 0
         ILoadInput(1),                   \* 6
         IIndexLiteral(0, 1, 0),          \* 7
         IAssertNotUndefined(0),          \* 8
         IRuleReturn,                     \* 9
         IRuleInit(0, 0),                 \* 10 rule 0 (v), definition 0, body 1
         ILoad(0, 1),                     \* 11
         IRuleReturn,                     \* 12
         IRuleInit(0, 0),                 \* 13 rule 0 (v), definition 1, body 0
         ILoadInput(1),                   \* 14
         IIndexLiteral(0, 1, 0),          \* 15
         IAssertNotUndefined(0),          \* 16
         IRuleReturn,                     \* 17
         IRuleInit(0, 1),                 \* 18 rule 1 (g), definition 0
         IMove(0, 1),                     \* 19
         IRuleReturn,                     \* 20
         IRuleInit(0, 1),                 \* 21 rule 1 (g), definition 1
         ILoad(0, 1),                     \* 22
         IRuleReturn,                     \* 23
         IRuleInit(0, 1),                 \* 24 rule 1 (g), definition 2
         IMove(0, 1),                     \* 25
         IRuleReturn                      \* 26
      >>,
      << Str("x"), Num(1), Bool(FALSE) >>,
      << RuleInfo("v", "Complete", << <<5, 10>>, <<13>> >>, << NoIndex, NoIndex >>,
                  0, 2, 2, NoIndex),
         RuleInfo("g", "Complete", << <<18>>, <<21>>, <<24>> >>,
                  << NoIndex, NoIndex, NoIndex >>, 0, 2, 2, 0) >>,
      << >>, << FunctionCallParams(2, 1, <<1>>) >>, << >>, << >>, NoRuleTree,
      << <<"main", 0>> >>, 0, 3, Obj({}))

\* Rules whose bodies may all fail: a Complete rule that writes its result before
\* its condition, rules without any definition, partial rules, a plain Complete rule.
ProgFallback ==
    Program(
      << ICallRule(0, 0),                 \* 0  entry "main"
         ICallRule(1, 1),                 \* 1
         ICallRule(2, 2),                 \* 2
         ICallRule(3, 3),                 \* 3
         ICallRule(4, 4),                 \* 4
         ICallRule(5, 5),                 \* 5
         IReturn(0),                      \* 6
         IRuleInit(0, 0),                 \* 7  body of rule 0 (early)
         ILoadTrue(0),                    \* 8
         ILoadInput(1),                   \* 9
         IIndexLiteral(2, 1, 1),          \* 10 input.role
         IAssertNotUndefined(2),          \* 11
         IRuleReturn,                     \* 12
         IRuleInit(0, 3),                 \* 13 body of rule 3 (s contains input.x)
         ILoadInput(1),                   \* 14
         IIndexLiteral(2, 1, 0),          \* 15
         IAssertNotUndefined(2),          \* 16
         ISetAdd(0, 2),                   \* 17
         IRuleReturn,                     \* 18
         IRuleInit(0, 4),                 \* 19 body of rule 4 (o[input.role] := input.x)
         ILoadInput(1),                   \* 20
         IIndexLiteral(2, 1, 1),          \* 21
         IIndexLiteral(3, 1, 0),          \* 22
         IAssertNotUndefined(2),          \* 23
         IObjectSet(0, 2, 3),             \* 24
         IRuleReturn,                     \* 25
         IRuleInit(0, 5),                 \* 26 body of rule 5 (w := input.x)
         ILoadInput(1),                   \* 27
         IIndexLiteral(0, 1, 0),          \* 28
         IAssertNotUndefined(0),          \* 29
         IRuleReturn                      \* 30
      >>,
      << Str("x"), Str("role"), Bool(FALSE) >>,
      << RuleInfo("early", "Complete", << <<7>> >>, << NoIndex >>, 0, 3, 2, NoIndex),
         RuleInfo("nodefs", "Complete", << >>, << >>, 0, 1, 2, NoIndex),
         RuleInfo("noset", "PartialSet", << >>, << >>, 0, 1, NoIndex, NoIndex),
         RuleInfo("s", "PartialSet", << <<13>> >>, << NoIndex >>, 0, 3, NoIndex, NoIndex),
         RuleInfo("o", "PartialObject", << <<19>> >>, << NoIndex >>, 0, 4, NoIndex, NoIndex),
         RuleInfo("w", "Complete", << <<26>> >>, << NoIndex >>, 0, 2, NoIndex, NoIndex) >>,
      << >>, << >>, << >>, << >>, NoRuleTree,
      << <<"main", 0>> >>, 0, 6, Obj({}))

\* every x in input.items { x < input.xs }; some x in input.items { x >= input.x };
\* data[input.role]
ProgLoop ==
    Program(
      << ILoadInput(1),                   \* 0  entry "main"
         IIndexLiteral(2, 1, 0),          \* 1  input.items
         IIndexLiteral(6, 1, 1),          \* 2  input.xs
         ILoopStart(0),                   \* 3
         IBin("Lt", 7, 4, 6),             \* 4
         ILoopNext(4, 6),                 \* 5
         IReturn(0),                      \* 6
         ILoadInput(1),                   \* 7  entry "some"
         IIndexLiteral(2, 1, 0),          \* 8  input.items
         IIndexLiteral(6, 1, 2),          \* 9  input.x
         ILoopStart(1),                   \* 10
         IBin("Ge", 7, 4, 6),             \* 11
         IAssertCondition(7),             \* 12
         ILoopNext(11, 14),               \* 13
         IHalt,                           \* 14
         ILoadData(1),                    \* 15 entry "tail"
         ILoadInput(2),                   \* 16
         IIndexLiteral(3, 2, 3),          \* 17 input.role
         IIndex(0, 1, 3),                 \* 18
         ILoadNull(4),                    \* 19
         ILoadFalse(5),                   \* 20
         IHalt                            \* 21
      >>,
      << Str("items"), Str("xs"), Str("x"), Str("role") >>,
      << >>,
      << LoopParams("Every", 2, 3, 4, 0, 4, 6), LoopParams("Any", 2, 3, 4, 0, 11, 14) >>,
      << >>, << >>, << >>, NoRuleTree,
      << <<"main", 0>>, <<"some", 7>>, <<"tail", 15>> >>, 0, 8,
      Obj({<<Str("admin"), Num(1)>>}))

\* data.p.a := input.x; data.p.b := true, over the base document {p: {c: 1}};
\* {x + data.p.a | x := input.items[_]}
ProgLookup ==
    Program(
      << IVirtualDataDocumentLookup(0),   \* 0  entry "main": r0 := data.p.a
         IVirtualDataDocumentLookup(1),   \* 1  r1 := data.p
         IVirtualDataDocumentLookup(2),   \* 2  r2 := data.p
         ILoadInput(3),                   \* 3
         IIndexLiteral(4, 3, 3),          \* 4  input.items
         IComprehensionBegin(0),          \* 5
         ILoopStart(0),                   \* 6
         IBin("Add", 9, 7, 0),            \* 7
         IComprehensionYield(9, NoIndex), \* 8
         ILoopNext(7, 10),                \* 9
         IComprehensionEnd,               \* 10
         IReturn(5),                      \* 11
         IRuleInit(0, 0),                 \* 12 body of rule 0 (data.p.a)
         ILoadInput(1),                   \* 13
         IIndexLiteral(0, 1, 2),          \* 14 input.x
         IAssertNotUndefined(0),          \* 15
         IRuleReturn,                     \* 16
         IRuleInit(0, 1),                 \* 17 body of rule 1 (data.p.b)
         ILoadTrue(0),                    \* 18
         IRuleReturn                      \* 19
      >>,
      << Str("p"), Str("a"), Str("x"), Str("items") >>,
      << RuleInfo("data.p.a", "Complete", << <<12>> >>, << NoIndex >>, 0, 2, NoIndex, NoIndex),
         RuleInfo("data.p.b", "Complete", << <<17>> >>, << NoIndex >>, 0, 1, NoIndex, NoIndex) >>,
      << LoopParams("ForEach", 4, 6, 7, 8, 7, 10) >>,
      << >>,
      << ComprehensionBeginParams("Set", 5, 11) >>,
      << VirtualDataDocumentLookupParams(0, << Literal(0), Literal(1) >>),
         VirtualDataDocumentLookupParams(1, << Literal(0) >>),
         VirtualDataDocumentLookupParams(2, << Literal(0) >>) >>,
      Obj({<<Str("data"), Obj({<<Str("p"), Obj({<<Str("a"), Num(0)>>, <<Str("b"), Num(1)>>})>>})>>}),
      << <<"main", 0>> >>, 0, 10,
      Obj({<<Str("p"), Obj({<<Str("c"), Num(1)>>})>>}))

\* the three instructions of body i of h(a, b), which applies op to its arguments
BinaryBody(op) == << IRuleInit(0, 0), IBin(op, 0, 1, 2), IRuleReturn >>
BinaryOps == << "Add", "Sub", "Mul", "Div", "Mod", "Eq", "Ne", "Lt", "Le", "Gt", "Ge" >>
RECURSIVE BinaryBodies(_)
BinaryBodies(i) ==
    IF i > Len(BinaryOps) THEN << >> ELSE BinaryBody(BinaryOps[i]) \o BinaryBodies(i + 1)

\* h(a, b) with one body per arithmetic and comparison instruction, called as
\* h(input.x, input.role) and as h(input.role, input.x)
ProgBinary ==
    Program(
      << ILoadInput(1),                   \* 0  entry "main"
         IIndexLiteral(2, 1, 0),          \* 1  input.x
         IIndexLiteral(3, 1, 1),          \* 2  input.role
         IFunctionCall(0),                \* 3  r0 := h(r2, r3)
         IFunctionCall(1),                \* 4  r4 := h(r3, r2)
         IReturn(0)                       \* 5
      >> \o BinaryBodies(1),              \* 6 + 3 * i: body i
      << Str("x"), Str("role") >>,
      << RuleInfo("h", "Complete", << [i \in 1..Len(BinaryOps) |-> 6 + 3 * (i - 1)] >>,
                  << NoIndex >>, 0, 3, NoIndex, 0) >>,
      << >>,
      << FunctionCallParams(0, 0, <<2, 3>>), FunctionCallParams(4, 0, <<3, 2>>) >>,
      << >>, << >>, NoRuleTree,
      << <<"main", 0>> >>, 0, 5, Obj({}))

\* input.x / 0, input.x % 0, 0.5 % 0; some v in input.items { v / 0; v % 0 }
ProgZero ==
    Program(
      << ILoadInput(1),                   \* 0  entry "main"
         IIndexLiteral(2, 1, 0),          \* 1  input.x
         ILoad(3, 1),                     \* 2  0
         ILoad(4, 2),                     \* 3  0.5
         IBin("Div", 5, 2, 3),            \* 4
         IBin("Mod", 6, 2, 3),            \* 5
         IBin("Mod", 7, 4, 3),            \* 6
         IIndexLiteral(8, 1, 3),          \* 7  input.items
         ILoopStart(0),                   \* 8
         IBin("Div", 12, 10, 3),          \* 9
         IBin("Mod", 12, 10, 3),          \* 10
         ILoopNext(9, 12),                \* 11
         IReturn(5)                       \* 12
      >>,
      << Str("x"), Num(0), Rat(1, 2), Str("items") >>,
      << >>,
      << LoopParams("Any", 8, 9, 10, 11, 9, 12) >>,
      << >>, << >>, << >>, NoRuleTree,
      << <<"main", 0>> >>, 0, 13, Obj({}))

\* [input.x, input.role]; {input.x, input.role, input.x}; [];
\* {"a": input.x, "c": input.role, input.role: input.x}; {"b": input.role};
\* {input.x: input.role}
ProgCreate ==
    WithCreateParams(
      Program(
        << ILoadInput(1),                 \* 0  entry "main"
           IIndexLiteral(2, 1, 0),        \* 1  input.x
           IIndexLiteral(3, 1, 1),        \* 2  input.role
           IArrayCreate(0),               \* 3
           ISetCreate(0),                 \* 4
           IArrayCreate(1),               \* 5
           IObjectCreate(0),              \* 6
           IObjectCreate(1),              \* 7
           IObjectCreate(2),              \* 8
           ISetCreate(1),                 \* 9
           IReturn(7)                     \* 10
        >>,
        << Str("x"), Str("role"), Str("a"), Str("c"), Str("b"),
           Obj({<<Str("a"), Null>>, <<Str("b"), Num(7)>>}),
           Obj({<<Str("b"), Null>>}) >>,
        << >>, << >>, << >>, << >>, << >>, NoRuleTree,
        << <<"main", 0>> >>, 0, 11, Obj({})),
      << ElementsParams(4, <<2, 3>>), ElementsParams(5, << >>) >>,
      << ElementsParams(6, <<2, 3, 2>>), ElementsParams(10, <<3>>) >>,
      << ObjectCreateParams(7, 5, << <<2, 2>>, <<3, 3>> >>, << <<3, 2>> >>),
         ObjectCreateParams(8, 6, << <<4, 3>> >>, << >>),
         ObjectCreateParams(9, 6, << >>, << <<2, 3>> >>) >>)

\* some/every/for-each loops over input.xs (Undefined) and over each of
\* [], {}, set(), null, true, 3, "a"
ProgVacuous ==
    Program(
      << ILoad(1, 0),                     \* 0  entry "main"
         ILoadInput(2),                   \* 1
         IIndexLiteral(3, 2, 1),          \* 2  input.xs
         ILoopStart(0),                   \* 3  some
         ILoadTrue(9),                    \* 4
         ILoopNext(4, 6),                 \* 5
         ILoopStart(1),                   \* 6  every
         ILoadTrue(9),                    \* 7
         ILoopNext(7, 9),                 \* 8
         ILoopStart(2),                   \* 9  for each
         ILoadTrue(9),                    \* 10
         ILoopNext(10, 12),               \* 11
         ILoopStart(3),                   \* 12 for each candidate r5
         ILoopStart(4),                   \* 13 some
         ILoadTrue(9),                    \* 14
         ILoopNext(14, 16),               \* 15
         ILoopStart(5),                   \* 16 every
         ILoadTrue(9),                    \* 17
         ILoopNext(17, 19),               \* 18
         ILoopStart(6),                   \* 19 for each
         ILoadTrue(9),                    \* 20
         ILoopNext(20, 22),               \* 21
         ILoopNext(13, 23),               \* 22
         IReturn(12)                      \* 23
      >>,
      << Arr(<<Arr(<<>>), Obj({}), SetOf({}), Null, Bool(TRUE), Num(3), Str("a")>>),
         Str("xs") >>,
      << >>,
      << LoopParams("Any", 3, 10, 11, 12, 4, 6),
         LoopParams("Every", 3, 10, 11, 12, 7, 9),
         LoopParams("ForEach", 3, 10, 11, 12, 10, 12),
         LoopParams("ForEach", 1, 4, 5, 6, 13, 23),
         LoopParams("Any", 5, 10, 11, 12, 14, 16),
         LoopParams("Every", 5, 10, 11, 12, 17, 19),
         LoopParams("ForEach", 5, 10, 11, 12, 20, 22) >>,
      << >>, << >>, << >>, NoRuleTree,
      << <<"main", 0>> >>, 0, 13, Obj({}))

\* for each collection c of the first literal: some v in c { v >= 2 } and
\* every v in c { v >= 2 }, each once with distinct key and value registers
\* and once with the same register for both
ProgSemantics ==
    Program(
      << ILoad(1, 0),                     \* 0  entry "semantics"
         ILoad(2, 1),                     \* 1  2
         ILoopStart(0),                   \* 2  for each collection r4
         ILoopStart(1),                   \* 3  some, key r6, value r7
         IBin("Ge", 9, 7, 2),             \* 4
         IAssertCondition(9),             \* 5
         ILoopNext(4, 7),                 \* 6
         ILoopStart(2),                   \* 7  some, key and value r7
         IBin("Ge", 9, 7, 2),             \* 8
         IAssertCondition(9),             \* 9
         ILoopNext(8, 11),                \* 10
         ILoopStart(3),                   \* 11 every, key r6, value r7
         IBin("Ge", 9, 7, 2),             \* 12
         IAssertCondition(9),             \* 13
         ILoopNext(12, 15),               \* 14
         ILoopStart(4),                   \* 15 every, key and value r7
         IBin("Ge", 9, 7, 2),             \* 16
         IAssertCondition(9),             \* 17
         ILoopNext(16, 19),               \* 18
         ILoopNext(3, 20),                \* 19
         IReturn(8)                       \* 20
      >>,
      << Arr(<< Arr(<<Num(1), Num(3)>>), Arr(<<Num(3), Num(1)>>),
                SetOf({Num(1), Num(3)}), SetOf({Num(3)}),
                Obj({<<Str("a"), Num(1)>>, <<Str("b"), Num(3)>>}),
                Obj({<<Str("a"), Num(3)>>, <<Str("b"), Num(1)>>}) >>),
         Num(2) >>,
      << >>,
      << LoopParams("ForEach", 1, 3, 4, 5, 3, 20),
         LoopParams("Any", 4, 6, 7, 8, 4, 7),
         LoopParams("Any", 4, 7, 7, 10, 8, 11),
         LoopParams("Every", 4, 6, 7, 11, 12, 15),
         LoopParams("Every", 4, 7, 7, 12, 16, 19) >>,
      << >>, << >>, << >>, NoRuleTree,
      << <<"semantics", 0>> >>, 0, 13, Obj({}))

\* two entry points; the first of the table, the main one, is at address 2
ProgMain ==
    Program(
      << ILoadFalse(0),                   \* 0  entry "other"
         IReturn(0),                      \* 1
         ILoadTrue(0),                    \* 2  entry "main"
         IReturn(0)                       \* 3
      >>,
      << >>, << >>, << >>, << >>, << >>, << >>, NoRuleTree,
      << <<"main", 2>>, <<"other", 0>> >>, 2, 2, Obj({}))

\* data.p.a := 1; data.p.b := input.xs (never defined), over the base
\* document {p: {c: 3}}; the entry point looks up data.p
ProgSubobject ==
    Program(
      << IVirtualDataDocumentLookup(0),   \* 0  entry "subobject": r0 := data.p
         IReturn(0),                      \* 1
         IRuleInit(0, 0),                 \* 2  body of rule 0 (data.p.a)
         ILoad(0, 1),                     \* 3  1
         IRuleReturn,                     \* 4
         IRuleInit(0, 1),                 \* 5  body of rule 1 (data.p.b)
         ILoadInput(1),                   \* 6
         IIndexLiteral(0, 1, 2),          \* 7  input.xs
         IAssertNotUndefined(0),          \* 8
         IRuleReturn                      \* 9
      >>,
      << Str("p"), Num(1), Str("xs") >>,
      << RuleInfo("data.p.a", "Complete", << <<2>> >>, << NoIndex >>, 0, 2, NoIndex, NoIndex),
         RuleInfo("data.p.b", "Complete", << <<5>> >>, << NoIndex >>, 0, 2, NoIndex, NoIndex) >>,
      << >>, << >>, << >>,
      << VirtualDataDocumentLookupParams(0, << Literal(0) >>) >>,
      Obj({<<Str("data"), Obj({<<Str("p"), Obj({<<Str("a"), Num(0)>>, <<Str("b"), Num(1)>>})>>})>>}),
      << <<"subobject", 0>> >>, 0, 2,
      Obj({<<Str("p"), Obj({<<Str("c"), Num(3)>>})>>}))

\* result := input.xs.x, once as is and once asserted to be defined; and
\* references to absent keys and into values that cannot be indexed
ProgMissing ==
    WithChainedIndexParams(
      Program(
        << ICallRule(0, 0),               \* 0  entry "missing"
           ICallRule(1, 1),               \* 1
           IReturn(0),                    \* 2
           ILoadInput(1),                 \* 3  entry "index"
           IIndexLiteral(2, 1, 0),        \* 4  input.xs: absent key
           IIndexLiteral(3, 2, 1),        \* 5  input.xs.x: Undefined container
           IIndexLiteral(4, 1, 2),        \* 6  input.items
           ILoad(5, 4),                   \* 7  5
           IIndex(6, 4, 5),               \* 8  input.items[5]: out of range
           IIndexLiteral(7, 1, 3),        \* 9  input.role
           IIndex(8, 4, 7),               \* 10 input.items[input.role]: string key
           IIndex(9, 7, 5),               \* 11 input.role[5]: string container
           ILoadNull(10),                 \* 12
           IIndex(11, 10, 5),             \* 13 null[5]
           ILoadTrue(10),                 \* 14
           IIndexLiteral(11, 10, 1),      \* 15 true.x
           IIndex(11, 5, 5),              \* 16 5[5]
           ILoad(10, 5),                  \* 17 {1}
           IIndex(11, 10, 5),             \* 18 {1}[5]: not a member
           IChainedIndex(0),              \* 19 input.xs, then a literal out of the table
           IChainedIndex(1),              \* 20 input.items[r5]
           IChainedIndex(2),              \* 21 input.items[0]
           IChainedIndex(3),              \* 22 5.x
           IReturn(12),                   \* 23
           IRuleInit(0, 0),               \* 24 body of rule 0
           ILoadInput(1),                 \* 25
           IChainedIndex(4),              \* 26 r0 := input.xs.x
           IRuleReturn,                   \* 27
           IRuleInit(0, 1),               \* 28 body of rule 1
           ILoadInput(1),                 \* 29
           IChainedIndex(5),              \* 30 r2 := input.xs.x
           IAssertNotUndefined(2),        \* 31
           IMove(0, 2),                   \* 32
           IRuleReturn                    \* 33
        >>,
        << Str("xs"), Str("x"), Str("items"), Str("role"), Num(5), SetOf({Num(1)}), Num(0) >>,
        << RuleInfo("result", "Complete", << <<24>> >>, << NoIndex >>, 0, 3, NoIndex, NoIndex),
           RuleInfo("checked", "Complete", << <<28>> >>, << NoIndex >>, 0, 3, NoIndex, NoIndex) >>,
        << >>, << >>, << >>, << >>, NoRuleTree,
        << <<"missing", 0>>, <<"index", 3>> >>, 0, 15, Obj({})),
      << ChainedIndexParams(12, 1, << Literal(0), Literal(99) >>),
         ChainedIndexParams(13, 1, << Literal(2), Register(5) >>),
         ChainedIndexParams(14, 1, << Literal(2), Literal(6) >>),
         ChainedIndexParams(13, 5, << Literal(1) >>),
         ChainedIndexParams(0, 1, << Literal(0), Literal(1) >>),
         ChainedIndexParams(2, 1, << Literal(0), Literal(1) >>) >>)

\* s contains x if x := input.items[_];  s contains 7 if input.role == "admin"
\* s contains 9 (then input.x is required);  s contains 2
\* t contains input.x;  t contains input.role
\* o["x"] := 7;  o["role"] := input.role
ProgPartial ==
    Program(
      << ICallRule(0, 0),                 \* 0  entry "partial"
         ICallRule(1, 1),                 \* 1
         ICallRule(2, 2),                 \* 2
         IReturn(0),                      \* 3
         IRuleInit(0, 0),                 \* 4  s, definition 0, body 0
         ILoadInput(1),                   \* 5
         IIndexLiteral(2, 1, 0),          \* 6  input.items
         ILoopStart(0),                   \* 7
         ISetAdd(0, 4),                   \* 8
         ILoopNext(8, 10),                \* 9
         IRuleReturn,                     \* 10
         IRuleInit(0, 0),                 \* 11 s, definition 0, body 1
         ILoadInput(1),                   \* 12
         IIndexLiteral(2, 1, 1),          \* 13 input.role
         ILoad(3, 2),                     \* 14 "admin"
         IBin("Eq", 4, 2, 3),             \* 15
         IAssertCondition(4),             \* 16
         ILoad(5, 3),                     \* 17 7
         ISetAdd(0, 5),                   \* 18
         IRuleReturn,                     \* 19
         IRuleInit(0, 0),                 \* 20 s, definition 1, body 0
         ILoad(5, 4),                     \* 21 9
         ISetAdd(0, 5),                   \* 22
         ILoadInput(1),                   \* 23
         IIndexLiteral(2, 1, 5),          \* 24 input.x
         IAssertNotUndefined(2),          \* 25
         IRuleReturn,                     \* 26
         IRuleInit(0, 0),                 \* 27 s, definition 1, body 1
         ILoad(5, 6),                     \* 28 2
         ISetAdd(0, 5),                   \* 29
         IRuleReturn,                     \* 30
         IRuleInit(0, 1),                 \* 31 t, definition 0
         ILoadInput(1),                   \* 32
         IIndexLiteral(2, 1, 5),          \* 33 input.x
         IAssertNotUndefined(2),          \* 34
         ISetAdd(0, 2),                   \* 35
         IRuleReturn,                     \* 36
         IRuleInit(0, 1),                 \* 37 t, definition 1
         ILoadInput(1),                   \* 38
         IIndexLiteral(2, 1, 1),          \* 39 input.role
         IAssertNotUndefined(2),          \* 40
         ISetAdd(0, 2),                   \* 41
         IRuleReturn,                     \* 42
         IRuleInit(0, 2),                 \* 43 o, body 0
         ILoad(1, 5),                     \* 44 "x"
         ILoad(2, 3),                     \* 45 7
         IObjectSet(0, 1, 2),             \* 46
         IRuleReturn,                     \* 47
         IRuleInit(0, 2),                 \* 48 o, body 1
         ILoadInput(1),                   \* 49
         IIndexLiteral(2, 1, 1),          \* 50 input.role
         IAssertNotUndefined(2),          \* 51
         ILoad(3, 1),                     \* 52 "role"
         IObjectSet(0, 3, 2),             \* 53
         IRuleReturn                      \* 54
      >>,
      << Str("items"), Str("role"), Str("admin"), Num(7), Num(9), Str("x"), Num(2) >>,
      << RuleInfo("s", "PartialSet", << <<4, 11>>, <<20, 27>> >>, << NoIndex, NoIndex >>,
                  0, 7, NoIndex, NoIndex),
         RuleInfo("t", "PartialSet", << <<31>>, <<37>> >>, << NoIndex, NoIndex >>,
                  0, 3, NoIndex, NoIndex),
         RuleInfo("o", "PartialObject", << <<43, 48>> >>, << NoIndex >>,
                  0, 4, NoIndex, NoIndex) >>,
      << LoopParams("ForEach", 2, 3, 4, 6, 8, 10) >>,
      << >>, << >>, << >>, NoRuleTree,
      << <<"partial", 0>> >>, 0, 3, Obj({}))

\* c := input.x;  c := input.x if input.role == "admin";  c := input.x (one
\* definition of three bodies); h("admin") := input.xs, h("admin") := 1 (one
\* definition with a destructuring block) and h(a) := 1; data.q := input.xs
ProgScope ==
    Program(
      << ICallRule(0, 0),                 \* 0  entry "scope"
         ILoadInput(1),                   \* 1
         IIndexLiteral(2, 1, 1),          \* 2  input.role
         IFunctionCall(0),                \* 3  r3 := h(r2)
         IVirtualDataDocumentLookup(0),   \* 4  r4 := data.q
         IReturn(3),                      \* 5
         IRuleInit(0, 0),                 \* 6  c, body 0
         ILoadInput(1),                   \* 7
         IIndexLiteral(0, 1, 0),          \* 8  input.x
         IAssertNotUndefined(0),          \* 9
         IRuleReturn,                     \* 10
         IRuleInit(0, 0),                 \* 11 c, body 1
         ILoadInput(1),                   \* 12
         IIndexLiteral(2, 1, 1),          \* 13 input.role
         ILoad(3, 2),                     \* 14 "admin"
         IBin("Eq", 4, 2, 3),             \* 15
         IAssertCondition(4),             \* 16
         IIndexLiteral(0, 1, 0),          \* 17 input.x
         IAssertNotUndefined(0),          \* 18
         IRuleReturn,                     \* 19
         IRuleInit(0, 0),                 \* 20 c, body 2
         ILoadInput(1),                   \* 21
         IIndexLiteral(0, 1, 0),          \* 22 input.x
         IAssertNotUndefined(0),          \* 23
         IRuleReturn,                     \* 24
         ILoad(2, 2),                     \* 25 destructuring block of h, definition 0
         IBin("Eq", 3, 1, 2),             \* 26 a == "admin"
         IAssertCondition(3),             \* 27
         IDestructuringSuccess,           \* 28
         IRuleInit(0, 1),                 \* 29 h, definition 0, body 0
         ILoadInput(2),                   \* 30
         IIndexLiteral(0, 2, 3),          \* 31 input.xs
         IAssertNotUndefined(0),          \* 32
         IRuleReturn,                     \* 33
         IRuleInit(0, 1),                 \* 34 h, definition 0, body 1
         ILoad(0, 4),                     \* 35 1
         IRuleReturn,                     \* 36
         IRuleInit(0, 1),                 \* 37 h, definition 1, body 0
         IAssertNotUndefined(1),          \* 38
         ILoad(0, 4),                     \* 39 1
         IRuleReturn,                     \* 40
         IRuleInit(0, 2),                 \* 41 body of data.q
         ILoadInput(1),                   \* 42
         IIndexLiteral(0, 1, 3),          \* 43 input.xs
         IAssertNotUndefined(0),          \* 44
         IRuleReturn                      \* 45
      >>,
      << Str("x"), Str("role"), Str("admin"), Str("xs"), Num(1), Str("q") >>,
      << RuleInfo("c", "Complete", << <<6, 11, 20>> >>, << NoIndex >>, 0, 5, NoIndex, NoIndex),
         RuleInfo("h", "Complete", << <<29, 34>>, <<37>> >>, << 25, NoIndex >>, 0, 4,
                  NoIndex, 0),
         RuleInfo("data.q", "Complete", << <<41>> >>, << NoIndex >>, 0, 2, NoIndex, NoIndex) >>,
      << >>, << FunctionCallParams(3, 1, <<2>>) >>, << >>,
      << VirtualDataDocumentLookupParams(4, << Literal(5) >>) >>,
      Obj({<<Str("data"), Obj({<<Str("q"), Num(2)>>})>>}),
      << <<"scope", 0>> >>, 0, 5, Obj({}))

\* for each collection c of the first literal, four times [v | v := c[_]]:
\* with distinct key and value registers and with one register for both (the
\* bodies then test v >= 2), with a body that overwrites the collection
\* register, and with a body that overwrites the key and value registers
ProgIterate ==
    Program(
      << ILoad(1, 0),                     \* 0  entry "iterate"
         ILoad(2, 1),                     \* 1  2
         ILoopStart(0),                   \* 2  for each collection r4
         IComprehensionBegin(0),          \* 3  r10, key r6, value r7
         ILoopStart(1),                   \* 4
         IComprehensionYield(7, NoIndex), \* 5
         IBin("Ge", 9, 7, 2),             \* 6
         IAssertCondition(9),             \* 7
         ILoopNext(5, 9),                 \* 8
         IComprehensionEnd,               \* 9
         IComprehensionBegin(1),          \* 10 r11, key and value r7
         ILoopStart(2),                   \* 11
         IComprehensionYield(7, NoIndex), \* 12
         IBin("Ge", 9, 7, 2),             \* 13
         IAssertCondition(9),             \* 14
         ILoopNext(12, 16),               \* 15
         IComprehensionEnd,               \* 16
         IMove(14, 4),                    \* 17
         IComprehensionBegin(2),          \* 18 r12, over r14
         ILoopStart(3),                   \* 19
         IComprehensionYield(7, NoIndex), \* 20
         ILoadNull(14),                   \* 21 the collection register is overwritten
         ILoopNext(20, 23),               \* 22
         IComprehensionEnd,               \* 23
         IComprehensionBegin(3),          \* 24 r13
         ILoopStart(4),                   \* 25
         IComprehensionYield(7, NoIndex), \* 26
         ILoad(6, 2),                     \* 27 the key register is overwritten
         ILoad(7, 2),                     \* 28 the value register is overwritten
         ILoopNext(26, 30),               \* 29
         IComprehensionEnd,               \* 30
         ILoopNext(3, 32),                \* 31
         IReturn(10)                      \* 32
      >>,
      << Arr(<< Arr(<<Num(3), Num(1)>>), SetOf({Num(1), Num(3)}),
                Obj({<<Str("a"), Num(3)>>, <<Str("b"), Num(1)>>}) >>),
         Num(2), Str("b") >>,
      << >>,
      << LoopParams("ForEach", 1, 3, 4, 5, 3, 32),
         LoopParams("ForEach", 4, 6, 7, 8, 5, 9),
         LoopParams("ForEach", 4, 7, 7, 8, 12, 16),
         LoopParams("ForEach", 14, 6, 7, 8, 20, 23),
         LoopParams("ForEach", 4, 6, 7, 8, 26, 30) >>,
      << >>,
      << ComprehensionBeginParams("Array", 10, 10), ComprehensionBeginParams("Array", 11, 17),
         ComprehensionBeginParams("Array", 12, 24), ComprehensionBeginParams("Array", 13, 31) >>,
      << >>, NoRuleTree,
      << <<"iterate", 0>> >>, 0, 15, Obj({}))

\* 0.5 % 0; 0.5 % 2; input.x % 0.5; 0.5 % input.role; 0.5 % 0.5
ProgModulo ==
    Program(
      << ILoad(1, 0),                     \* 0  entry "float_zero"
         ILoad(2, 1),                     \* 1
         IBin("Mod", 3, 1, 2),            \* 2
         IReturn(3),                      \* 3
         ILoad(1, 0),                     \* 4  entry "float_int"
         ILoad(2, 2),                     \* 5
         IBin("Mod", 3, 1, 2),            \* 6
         IReturn(3),                      \* 7
         ILoadInput(4),                   \* 8  entry "input_float"
         IIndexLiteral(1, 4, 3),          \* 9  input.x
         ILoad(2, 0),                     \* 10
         IBin("Mod", 3, 1, 2),            \* 11
         IReturn(3),                      \* 12
         ILoad(1, 0),                     \* 13 entry "float_input"
         ILoadInput(4),                   \* 14
         IIndexLiteral(2, 4, 4),          \* 15 input.role
         IBin("Mod", 3, 1, 2),            \* 16
         IReturn(3),                      \* 17
         ILoad(1, 0),                     \* 18 entry "float_float"
         ILoad(2, 0),                     \* 19
         IBin("Mod", 3, 1, 2),            \* 20
         IReturn(3)                       \* 21
      >>,
      << Rat(1, 2), Num(0), Num(2), Str("x"), Str("role") >>,
      << >>, << >>, << >>, << >>, << >>, NoRuleTree,
      << <<"float_zero", 0>>, <<"float_int", 4>>, <<"input_float", 8>>,
         <<"float_input", 13>>, <<"float_float", 18>> >>, 0, 5, Obj({}))

\* {"b": null, "c": 7} with a: input.x, b: input.role, b: input.x, p: input.role;
\* {"a": null, "b": 7} with a: input.x, b: input.role, then input.role: input.x,
\* "a": input.role, input.role: input.role; 7 taken as a template
ProgOverlay ==
    WithCreateParams(
      Program(
        << ILoadInput(1),                 \* 0  entry "overlay"
           IIndexLiteral(2, 1, 0),        \* 1  input.x
           IIndexLiteral(3, 1, 1),        \* 2  input.role
           ILoad(4, 2),                   \* 3  "a"
           IObjectCreate(0),              \* 4
           IObjectCreate(1),              \* 5
           IObjectCreate(2),              \* 6
           IReturn(5)                     \* 7
        >>,
        << Str("x"), Str("role"), Str("a"), Str("b"), Str("p"),
           Obj({<<Str("b"), Null>>, <<Str("c"), Num(7)>>}),
           Obj({<<Str("a"), Null>>, <<Str("b"), Num(7)>>}),
           Num(7) >>,
        << >>, << >>, << >>, << >>, << >>, NoRuleTree,
        << <<"overlay", 0>> >>, 0, 8, Obj({})),
      << >>, << >>,
      << ObjectCreateParams(5, 5, << <<2, 2>>, <<3, 3>>, <<3, 2>>, <<4, 3>> >>, << >>),
         ObjectCreateParams(6, 6, << <<2, 2>>, <<3, 3>> >>,
                            << <<3, 2>>, <<4, 3>>, <<3, 3>> >>),
         ObjectCreateParams(7, 7, << <<2, 2>> >>, << >>) >>)

\* r := {"a": {"b": 1}}; q := input; data.p.r, data.p.r.a.b, data.p.r.b.a,
\* data.p.q[r6], data.p.q.x.a, data.p.q
ProgLeaf ==
    Program(
      << ILoad(6, 4),                     \* 0  entry "leaf": "role"
         IVirtualDataDocumentLookup(0),   \* 1  r1 := data.p.r
         IVirtualDataDocumentLookup(1),   \* 2  r2 := data.p.r.a.b
         IVirtualDataDocumentLookup(2),   \* 3  r3 := data.p.r.b.a
         IVirtualDataDocumentLookup(3),   \* 4  r4 := data.p.q[r6]
         IVirtualDataDocumentLookup(4),   \* 5  r5 := data.p.q.x.a
         IVirtualDataDocumentLookup(5),   \* 6  r7 := data.p.q
         IReturn(2),                      \* 7
         IRuleInit(0, 0),                 \* 8  body of rule 0 (data.p.r)
         ILoad(0, 6),                     \* 9
         IRuleReturn,                     \* 10
         IRuleInit(0, 1),                 \* 11 body of rule 1 (data.p.q)
         ILoadInput(0),                   \* 12
         IRuleReturn                      \* 13
      >>,
      << Str("p"), Str("r"), Str("a"), Str("b"), Str("role"), Str("x"),
         Obj({<<Str("a"), Obj({<<Str("b"), Num(1)>>})>>}), Str("q") >>,
      << RuleInfo("data.p.r", "Complete", << <<8>> >>, << NoIndex >>, 0, 2, NoIndex, NoIndex),
         RuleInfo("data.p.q", "Complete", << <<11>> >>, << NoIndex >>, 0, 2, NoIndex, NoIndex) >>,
      << >>, << >>, << >>,
      << VirtualDataDocumentLookupParams(1, << Literal(0), Literal(1) >>),
         VirtualDataDocumentLookupParams(2, << Literal(0), Literal(1), Literal(2), Literal(3) >>),
         VirtualDataDocumentLookupParams(3, << Literal(0), Literal(1), Literal(3), Literal(2) >>),
         VirtualDataDocumentLookupParams(4, << Literal(0), Literal(7), Register(6) >>),
         VirtualDataDocumentLookupParams(5, << Literal(0), Literal(7), Literal(5), Literal(2) >>),
         VirtualDataDocumentLookupParams(7, << Literal(0), Literal(7) >>) >>,
      Obj({<<Str("data"), Obj({<<Str("p"), Obj({<<Str("q"), Num(1)>>, <<Str("r"), Num(0)>>})>>})>>}),
      << <<"leaf", 0>> >>, 0, 8,
      Obj({<<Str("p"), Obj({<<Str("r"), Obj({<<Str("a"), Obj({<<Str("b"), Num(5)>>})>>})>>})>>}))

\* r := true; data.p.r, data.x.a, data.x.b.c, data.p.xs.c, data.x.q.a,
\* data[input.role].a
ProgOutside ==
    Program(
      << ILoadInput(8),                   \* 0  entry "outside"
         IIndexLiteral(6, 8, 8),          \* 1  input.role
         IVirtualDataDocumentLookup(0),   \* 2  r1 := data.p.r
         IVirtualDataDocumentLookup(1),   \* 3  r2 := data.x.a
         IVirtualDataDocumentLookup(2),   \* 4  r3 := data.x.b.c
         IVirtualDataDocumentLookup(3),   \* 5  r4 := data.p.xs.c
         IVirtualDataDocumentLookup(4),   \* 6  r5 := data.x.q.a
         IVirtualDataDocumentLookup(5),   \* 7  r7 := data[r6].a
         IReturn(2),                      \* 8
         IRuleInit(0, 0),                 \* 9  body of rule 0 (data.p.r)
         ILoadTrue(0),                    \* 10
         IRuleReturn                      \* 11
      >>,
      << Str("p"), Str("r"), Str("x"), Str("a"), Str("b"), Str("c"), Str("xs"), Str("q"),
         Str("role") >>,
      << RuleInfo("data.p.r", "Complete", << <<9>> >>, << NoIndex >>, 0, 1, NoIndex, NoIndex) >>,
      << >>, << >>, << >>,
      << VirtualDataDocumentLookupParams(1, << Literal(0), Literal(1) >>),
         VirtualDataDocumentLookupParams(2, << Literal(2), Literal(3) >>),
         VirtualDataDocumentLookupParams(3, << Literal(2), Literal(4), Literal(5) >>),
         VirtualDataDocumentLookupParams(4, << Literal(0), Literal(6), Literal(5) >>),
         VirtualDataDocumentLookupParams(5, << Literal(2), Literal(7), Literal(3) >>),
         VirtualDataDocumentLookupParams(7, << Register(6), Literal(3) >>) >>,
      Obj({<<Str("data"), Obj({<<Str("p"), Obj({<<Str("r"), Num(0)>>})>>})>>}),
      << <<"outside", 0>> >>, 0, 9,
      Obj({<<Str("x"), Obj({<<Str("a"), Num(2)>>, <<Str("b"), Obj({<<Str("c"), Num(3)>>})>>})>>,
           <<Str("p"), Obj({<<Str("xs"), Obj({<<Str("c"), Num(4)>>})>>})>>,
           <<Str("admin"), Obj({<<Str("a"), Num(7)>>})>>}))

\* r := true; data.p.x, data.x, data (the empty path), over the rule tree
\* {data: {p: {r: rule 0}}}
ProgAbsent ==
    Program(
      << IVirtualDataDocumentLookup(0),   \* 0  entry "absent_last": r1 := data.p.x
         IReturn(1),                      \* 1
         IVirtualDataDocumentLookup(1),   \* 2  entry "absent_first": r1 := data.x
         IReturn(1),                      \* 3
         IVirtualDataDocumentLookup(2),   \* 4  entry "empty": r1 := data
         IReturn(1),                      \* 5
         IRuleInit(0, 0),                 \* 6  body of rule 0 (data.p.r)
         ILoadTrue(0),                    \* 7
         IRuleReturn                      \* 8
      >>,
      << Str("p"), Str("r"), Str("x") >>,
      << RuleInfo("data.p.r", "Complete", << <<6>> >>, << NoIndex >>, 0, 1, NoIndex, NoIndex) >>,
      << >>, << >>, << >>,
      << VirtualDataDocumentLookupParams(1, << Literal(0), Literal(2) >>),
         VirtualDataDocumentLookupParams(1, << Literal(2) >>),
         VirtualDataDocumentLookupParams(1, << >>) >>,
      Obj({<<Str("data"), Obj({<<Str("p"), Obj({<<Str("r"), Num(0)>>})>>})>>}),
      << <<"absent_last", 0>>, <<"absent_first", 2>>, <<"empty", 4>> >>, 0, 2,
      Obj({<<Str("x"), Obj({<<Str("a"), Num(2)>>})>>}))

\* a rule tree with a string, a boolean, null, an array and a set in it
ProgBadTree ==
    Program(
      << IVirtualDataDocumentLookup(0),   \* 0  entry "string_last": data.p.a
         IReturn(1),                      \* 1
         IVirtualDataDocumentLookup(1),   \* 2  entry "bool_last": data.q
         IReturn(1),                      \* 3
         IVirtualDataDocumentLookup(2),   \* 4  entry "null_last": data.c
         IReturn(1),                      \* 5
         IVirtualDataDocumentLookup(3),   \* 6  entry "array_last": data.items
         IReturn(1),                      \* 7
         IVirtualDataDocumentLookup(4),   \* 8  entry "set_last": data.xs
         IReturn(1),                      \* 9
         IVirtualDataDocumentLookup(5),   \* 10 entry "bool_mid": data.q.a
         IReturn(1),                      \* 11
         IVirtualDataDocumentLookup(6),   \* 12 entry "bool_mid_more": data.q.a.b
         IReturn(1),                      \* 13
         IVirtualDataDocumentLookup(7),   \* 14 entry "subtree": data.p
         IReturn(1),                      \* 15
         IVirtualDataDocumentLookup(8),   \* 16 entry "array_mid": data.items[0]
         IReturn(1),                      \* 17
         IRuleInit(0, 0),                 \* 18 body of rule 0 (data.p.b)
         ILoadTrue(0),                    \* 19
         IRuleReturn                      \* 20
      >>,
      << Str("p"), Str("a"), Str("b"), Str("q"), Str("c"), Str("items"), Str("xs"), Num(0) >>,
      << RuleInfo("data.p.b", "Complete", << <<18>> >>, << NoIndex >>, 0, 1, NoIndex, NoIndex) >>,
      << >>, << >>, << >>,
      << VirtualDataDocumentLookupParams(1, << Literal(0), Literal(1) >>),
         VirtualDataDocumentLookupParams(1, << Literal(3) >>),
         VirtualDataDocumentLookupParams(1, << Literal(4) >>),
         VirtualDataDocumentLookupParams(1, << Literal(5) >>),
         VirtualDataDocumentLookupParams(1, << Literal(6) >>),
         VirtualDataDocumentLookupParams(1, << Literal(3), Literal(1) >>),
         VirtualDataDocumentLookupParams(1, << Literal(3), Literal(1), Literal(2) >>),
         VirtualDataDocumentLookupParams(1, << Literal(0) >>),
         VirtualDataDocumentLookupParams(1, << Literal(5), Literal(7) >>) >>,
      Obj({<<Str("data"),
            Obj({<<Str("p"), Obj({<<Str("a"), Str("a")>>, <<Str("b"), Num(0)>>})>>,
                 <<Str("q"), Bool(TRUE)>>, <<Str("c"), Null>>,
                 <<Str("items"), Arr(<<Num(0)>>)>>, <<Str("xs"), SetOf({Num(0)})>>})>>}),
      << <<"string_last", 0>>, <<"bool_last", 2>>, <<"null_last", 4>>, <<"array_last", 6>>,
         <<"set_last", 8>>, <<"bool_mid", 10>>, <<"bool_mid_more", 12>>, <<"subtree", 14>>,
         <<"array_mid", 16>> >>, 0, 2,
      Obj({<<Str("q"), Obj({<<Str("a"), Obj({<<Str("b"), Num(4)>>})>>})>>}))

\* rule 0 ends its body on Return, rule 1 its first body on Halt
ProgTerminal ==
    Program(
      << ICallRule(1, 0),                 \* 0  entry "terminal"
         ICallRule(2, 1),                 \* 1
         IReturn(2),                      \* 2
         ILoadInput(0),                   \* 3  entry "halt"
         IHalt,                           \* 4
         IRuleInit(0, 0),                 \* 5  body of rule 0
         ILoad(0, 0),                     \* 6  7
         IReturn(0),                      \* 7
         IRuleInit(0, 1),                 \* 8  body 0 of rule 1
         ILoadTrue(0),                    \* 9
         IHalt,                           \* 10
         IRuleInit(0, 1),                 \* 11 body 1 of rule 1
         ILoadTrue(0),                    \* 12
         IRuleReturn                      \* 13
      >>,
      << Num(7) >>,
      << RuleInfo("data.p.a", "Complete", << <<5>> >>, << NoIndex >>, 0, 1, NoIndex, NoIndex),
         RuleInfo("data.p.b", "Complete", << <<8, 11>> >>, << NoIndex >>, 0, 1, NoIndex,
                  NoIndex) >>,
      << >>, << >>, << >>, << >>, NoRuleTree,
      << <<"terminal", 0>>, <<"halt", 3>> >>, 0, 3, Obj({}))

\* [f(v) | v := [1, 2][_]] with calls of c and of data.p.r in the loop body.
\* f overwrites its argument in a body that fails; body 0 of c ends with an
\* error inside a comprehension and an Every loop, body 1 of c fails a condition
\* outside of any loop; data.p.r calls f from its body
ProgFrame ==
    Program(
      << ILoad(1, 0),                     \* 0  entry "frame"
         IComprehensionBegin(0),          \* 1  r5
         ILoopStart(0),                   \* 2  key r2, value r3
         IFunctionCall(0),                \* 3  r6 := f(r3)
         ICallRule(7, 1),                 \* 4  r7 := c
         IVirtualDataDocumentLookup(0),   \* 5  r8 := data.p.r
         IComprehensionYield(6, NoIndex), \* 6
         ILoopNext(3, 8),                 \* 7
         IComprehensionEnd,               \* 8
         IReturn(5),                      \* 9
         IRuleInit(0, 0),                 \* 10 f, definition 0, body 0
         ILoad(1, 2),                     \* 11 the argument register is overwritten
         ILoadFalse(2),                   \* 12
         IAssertCondition(2),             \* 13
         IRuleReturn,                     \* 14
         IRuleInit(0, 0),                 \* 15 f, definition 0, body 1
         IMove(0, 1),                     \* 16
         IRuleReturn,                     \* 17
         IMove(2, 1),                     \* 18 destructuring block of f, definition 1
         IAssertNotUndefined(2),          \* 19
         IDestructuringSuccess,           \* 20
         IRuleInit(0, 0),                 \* 21 f, definition 1, body 0
         IMove(0, 2),                     \* 22
         IRuleReturn,                     \* 23
         IRuleInit(0, 1),                 \* 24 c, body 0
         ILoad(1, 0),                     \* 25
         IComprehensionBegin(1),          \* 26 r2
         ILoopStart(1),                   \* 27 key r3, value r4
         ILoad(6, 1),                     \* 28 "a"
         IBin("Add", 6, 6, 4),            \* 29 "a" + v
         ILoopNext(28, 31),               \* 30
         IComprehensionEnd,               \* 31
         ILoad(0, 3),                     \* 32 5
         IRuleReturn,                     \* 33
         IRuleInit(0, 1),                 \* 34 c, body 1
         ILoadFalse(1),                   \* 35
         IAssertCondition(1),             \* 36
         ILoad(0, 2),                     \* 37 9
         IRuleReturn,                     \* 38
         IRuleInit(0, 2),                 \* 39 body of data.p.r
         ILoad(1, 3),                     \* 40 5
         IFunctionCall(1),                \* 41 r0 := f(r1)
         IRuleReturn                      \* 42
      >>,
      << Arr(<<Num(1), Num(2)>>), Str("a"), Num(9), Num(5), Str("p"), Str("r") >>,
      << RuleInfo("f", "Complete", << <<10, 15>>, <<21>> >>, << NoIndex, 18 >>, 0, 3,
                  NoIndex, 0),
         RuleInfo("c", "Complete", << <<24, 34>> >>, << NoIndex >>, 0, 7, NoIndex, NoIndex),
         RuleInfo("data.p.r", "Complete", << <<39>> >>, << NoIndex >>, 0, 2, NoIndex,
                  NoIndex) >>,
      << LoopParams("ForEach", 1, 2, 3, 4, 3, 8), LoopParams("Every", 1, 3, 4, 5, 28, 31) >>,
      << FunctionCallParams(6, 0, <<3>>), FunctionCallParams(0, 0, <<1>>) >>,
      << ComprehensionBeginParams("Array", 5, 9), ComprehensionBeginParams("Set", 2, 32) >>,
      << VirtualDataDocumentLookupParams(8, << Literal(4), Literal(5) >>) >>,
      Obj({<<Str("data"), Obj({<<Str("p"), Obj({<<Str("r"), Num(2)>>})>>})>>}),
      << <<"frame", 0>> >>, 0, 9, Obj({}))

\* comprehensions: three nested ones yielding 2 and input.x; an object
\* comprehension yielding without a key; yields after the collection register
\* was overwritten; a yield and an end outside of any comprehension; and a
\* comprehension inside an Every loop inside a comprehension whose condition fails
ProgComprehension ==
    Program(
      << IComprehensionBegin(0),          \* 0  entry "nested": array r1
         ILoadInput(5),                   \* 1
         IIndexLiteral(6, 5, 0),          \* 2  input.x
         ILoad(7, 1),                     \* 3  2
         IComprehensionYield(7, NoIndex), \* 4
         IComprehensionBegin(1),          \* 5  set r2
         IComprehensionYield(7, NoIndex), \* 6
         IComprehensionYield(6, NoIndex), \* 7
         IComprehensionYield(7, NoIndex), \* 8
         IComprehensionBegin(2),          \* 9  object r3
         IComprehensionYield(7, 6),       \* 10 input.x -> 2
         IComprehensionYield(6, 6),       \* 11 input.x -> input.x
         IComprehensionEnd,               \* 12
         IComprehensionEnd,               \* 13
         IComprehensionYield(6, NoIndex), \* 14
         IComprehensionYield(7, NoIndex), \* 15
         IComprehensionEnd,               \* 16
         IReturn(1),                      \* 17
         IComprehensionBegin(3),          \* 18 entry "no_key": object r1
         IComprehensionYield(7, NoIndex), \* 19
         IComprehensionEnd,               \* 20
         IReturn(1),                      \* 21
         IComprehensionBegin(4),          \* 22 entry "clobbered_array": array r1
         ILoad(1, 2),                     \* 23 r1 := the empty set
         IComprehensionYield(7, NoIndex), \* 24
         IComprehensionEnd,               \* 25
         IReturn(1),                      \* 26
         IComprehensionBegin(5),          \* 27 entry "clobbered_set": set r1
         ILoadNull(1),                    \* 28
         IComprehensionYield(7, NoIndex), \* 29
         IComprehensionEnd,               \* 30
         IReturn(1),                      \* 31
         IComprehensionBegin(6),          \* 32 entry "clobbered_object": object r1
         ILoadNull(1),                    \* 33
         IComprehensionYield(7, NoIndex), \* 34
         IComprehensionEnd,               \* 35
         IReturn(1),                      \* 36
         IComprehensionYield(7, NoIndex), \* 37 entry "yield_alone"
         IReturn(1),                      \* 38
         IComprehensionEnd,               \* 39 entry "end_alone"
         IReturn(1),                      \* 40
         ILoad(1, 3),                     \* 41 entry "mismatch": [1]
         IComprehensionBegin(7),          \* 42 array r2
         ILoopStart(0),                   \* 43 every v in r1
         IComprehensionBegin(8),          \* 44 set r6
         ILoadFalse(7),                   \* 45
         IAssertCondition(7),             \* 46
         IComprehensionEnd,               \* 47 closes the set r6
         ILoopNext(44, 49),               \* 48
         IComprehensionYield(5, NoIndex), \* 49
         IComprehensionEnd,               \* 50 closes the array r2
         IReturn(2)                       \* 51
      >>,
      << Str("x"), Num(2), SetOf({}), Arr(<<Num(1)>>) >>,
      << >>,
      << LoopParams("Every", 1, 3, 4, 5, 44, 49) >>,
      << >>,
      << ComprehensionBeginParams("Array", 1, 17), ComprehensionBeginParams("Set", 2, 14),
         ComprehensionBeginParams("Object", 3, 13), ComprehensionBeginParams("Object", 1, 21),
         ComprehensionBeginParams("Array", 1, 26), ComprehensionBeginParams("Set", 1, 31),
         ComprehensionBeginParams("Object", 1, 36), ComprehensionBeginParams("Array", 2, 51),
         ComprehensionBeginParams("Set", 6, 48) >>,
      << >>, NoRuleTree,
      << <<"nested", 0>>, <<"no_key", 18>>, <<"clobbered_array", 22>>,
         <<"clobbered_set", 27>>, <<"clobbered_object", 32>>, <<"yield_alone", 37>>,
         <<"end_alone", 39>>, <<"mismatch", 41>> >>, 0, 8, Obj({}))

\* rules without definitions of every kind, one of them with a default literal,
\* called by CallRule, FunctionCall and a lookup; rule indexes that are out of range
ProgEmpty ==
    Program(
      << ICallRule(1, 0),                 \* 0  entry "empty": Complete, default 7
         ICallRule(2, 1),                 \* 1  PartialSet
         ICallRule(3, 2),                 \* 2  PartialObject
         IFunctionCall(0),                \* 3  r4 := e_fn(r1)
         IFunctionCall(0),                \* 4
         ICallRule(5, 0),                 \* 5  once more
         IVirtualDataDocumentLookup(0),   \* 6  r6 := data.p.r
         IReturn(1),                      \* 7
         ILoadTrue(1),                    \* 8  entry "out_of_range"
         ICallRule(1, 5),                 \* 9
         IReturn(1),                      \* 10
         IFunctionCall(1),                \* 11 entry "function_out_of_range"
         IReturn(1),                      \* 12
         IVirtualDataDocumentLookup(1),   \* 13 entry "leaf_out_of_range": data.p.x
         IReturn(1)                       \* 14
      >>,
      << Num(7), Str("p"), Str("r"), Str("x") >>,
      << RuleInfo("e_complete", "Complete", << >>, << >>, 0, 2, 0, NoIndex),
         RuleInfo("e_set", "PartialSet", << >>, << >>, 0, 2, NoIndex, NoIndex),
         RuleInfo("e_object", "PartialObject", << >>, << >>, 0, 2, NoIndex, NoIndex),
         RuleInfo("e_fn", "Complete", << >>, << >>, 0, 2, NoIndex, 0),
         RuleInfo("data.p.r", "Complete", << >>, << >>, 0, 2, NoIndex, NoIndex) >>,
      << >>,
      << FunctionCallParams(4, 3, <<1>>), FunctionCallParams(1, 9, <<0>>) >>,
      << >>,
      << VirtualDataDocumentLookupParams(6, << Literal(1), Literal(2) >>),
         VirtualDataDocumentLookupParams(1, << Literal(1), Literal(3) >>) >>,
      Obj({<<Str("data"),
             Obj({<<Str("p"), Obj({<<Str("r"), Num(4)>>, <<Str("x"), Num(7)>>})>>})>>}),
      << <<"empty", 0>>, <<"out_of_range", 8>>, <<"function_out_of_range", 11>>,
         <<"leaf_out_of_range", 13>> >>, 0, 7, Obj({}))

\* a loop of a one-instruction body that overwrites the loop's value register
ProgSpin ==
    Program(
      << ILoad(1, 0),                     \* 0  entry "spin"
         ILoopStart(0),                   \* 1
         ILoad(3, 1),                     \* 2  the value register is overwritten
         ILoopNext(2, 4),                 \* 3
         IReturn(4)                       \* 4
      >>,
      << Arr(<<Num(1), Num(2), Num(3)>>), Num(7) >>,
      << >>,
      << LoopParams("ForEach", 1, 2, 3, 4, 2, 4) >>,
      << >>,
      << >>,
      << >>, NoRuleTree,
      << <<"spin", 0>> >>, 0, 5, Obj({}))

Programs == << ProgDefault, ProgBudget, ProgMemo, ProgConsistency, ProgFallback, ProgLoop,
               ProgLookup, ProgBinary, ProgZero, ProgCreate, ProgVacuous, ProgSemantics,
               ProgMain, ProgSubobject, ProgMissing, ProgPartial, ProgScope, ProgIterate,
               ProgModulo, ProgOverlay, ProgLeaf,
               ProgOutside, ProgAbsent, ProgBadTree, ProgTerminal, ProgFrame,
               ProgComprehension, ProgEmpty, ProgSpin >>

InputSet ==
    { Obj({<<Str("role"), Str("admin")>>, <<Str("x"), Num(1)>>,
           <<Str("items"), Arr(<<Num(2), Num(2), Num(3)>>)>>}),
      Obj({<<Str("role"), Str("guest")>>, <<Str("x"), Str("a")>>,
           <<Str("items"), Arr(<<Num(3)>>)>>}),
      Obj({<<Str("role"), Str("guest")>>, <<Str("items"), Arr(<<Num(1)>>)>>}),
      Obj({}) }

(***************************************************************************)
(* The VM (struct RegoVM) and the control state of the host call.          *)
(***************************************************************************)
VARIABLES
    program,                \* the loaded program
    registers, pc, rule_cache, data, input, loop_stack, call_rule_stack,
    register_stack, comprehension_stack, base_register_count,
    register_window_pool, max_instructions, executed_instructions,
    evaluated, cache_hits,
    frames,                 \* activations of execute_rule_definitions_common
    status,                 \* "idle", "running" or "returned"
    ret,                    \* what the last jump_to / host call returned
    \* history of the current execution (read by the properties only)
    rule_runs,              \* per rule: runs of its definitions
    raised,                 \* the errors raised so far
    calls,                  \* the rule calls completed so far, in order
    entry,                  \* the pc the execution was started at
    residue                 \* what the previous execution had left behind

vmvars == <<registers, pc, rule_cache, loop_stack, call_rule_stack, register_stack,
            comprehension_stack, register_window_pool, executed_instructions,
            evaluated, cache_hits, frames, status, ret, rule_runs, raised, calls,
            entry, residue>>
cfgvars == <<program, data, input, base_register_count, max_instructions>>
vars == <<vmvars, cfgvars>>

Prog == program
NumInstructions == Len(Prog.instructions)
CurInstr == Prog.instructions[pc + 1]
RuleInfos == Prog.rule_infos
Literals == Prog.literals
LiteralInRange(idx) == idx >= 0 /\ idx < Len(Literals)
is_function_rule(rule_index) == RuleInfos[rule_index + 1].function_info # NoIndex

\* The part of the state that an instruction or the driver can change.
VM ==
    [registers |-> registers, pc |-> pc, rule_cache |-> rule_cache,
     loop_stack |-> loop_stack, call_rule_stack |-> call_rule_stack,
     register_stack |-> register_stack, comprehension_stack |-> comprehension_stack,
     register_window_pool |-> register_window_pool,
     executed_instructions |-> executed_instructions, evaluated |-> evaluated,
     cache_hits |-> cache_hits, frames |-> frames, status |-> status, ret |-> ret,
     rule_runs |-> rule_runs, raised |-> raised, calls |-> calls, entry |-> entry,
     residue |-> residue, max_instructions |-> max_instructions,
     flow |-> "next"]      \* "enter" once a nested jump_to has been started

Become(t) ==
    /\ registers' = t.registers
    /\ pc' = t.pc
    /\ rule_cache' = t.rule_cache
    /\ loop_stack' = t.loop_stack
    /\ call_rule_stack' = t.call_rule_stack
    /\ register_stack' = t.register_stack
    /\ comprehension_stack' = t.comprehension_stack
    /\ register_window_pool' = t.register_window_pool
    /\ executed_instructions' = t.executed_instructions
    /\ evaluated' = t.evaluated
    /\ cache_hits' = t.cache_hits
    /\ frames' = t.frames
    /\ status' = t.status
    /\ ret' = t.ret
    /\ rule_runs' = t.rule_runs
    /\ raised' = t.raised
    /\ calls' = t.calls
    /\ entry' = t.entry
    /\ residue' = t.residue
    /\ UNCHANGED cfgvars

Reg(s, r) == s.registers[r + 1]
SetReg(s, r, val) == [s EXCEPT !.registers[r + 1] = val]
\* Vec::resize(n, Value::Undefined)
Resize(w, n) == [i \in 1..n |-> IF i <= Len(w) THEN w[i] ELSE Undefined]
Last(q) == q[Len(q)]
Front(q) == SubSeq(q, 1, Len(q) - 1)

\* `return Err(e)` / `return Ok(v)` / `break` out of the dispatcher's loop
Raise(s, e) == [s EXCEPT !.status = "returned", !.ret = e, !.raised = Append(@, e)]
Ok(s, val) == [s EXCEPT !.status = "returned", !.ret = val]

(***************************************************************************)
(* Arithmetic and truthiness.                                              *)
(***************************************************************************)
add_values(a, b) ==
    IF IsNumber(a) /\ IsNumber(b) THEN NumAdd(a, b) ELSE Err("InvalidAddition", <<a, b>>)
sub_values(a, b) ==
    IF IsNumber(a) /\ IsNumber(b) THEN NumSub(a, b) ELSE Err("InvalidSubtraction", <<a, b>>)
mul_values(a, b) ==
    IF IsNumber(a) /\ IsNumber(b) THEN NumMul(a, b) ELSE Err("InvalidMultiplication", <<a, b>>)
\* div_values as it would be if a zero divisor were an error
div_values_strict(a, b) ==
    IF IsNumber(a) /\ IsNumber(b)
    THEN IF b = Num(0) THEN Err("ArithmeticError", <<>>) ELSE NumDivide(a, b)
    ELSE Err("InvalidDivision", <<a, b>>)
div_values(a, b) ==
    IF IsNumber(a) /\ IsNumber(b)
    THEN IF b = Num(0) THEN Undefined ELSE NumDivide(a, b)
    ELSE Err("InvalidDivision", <<a, b>>)
mod_values_integer_test_first(a, b) ==
    IF IsNumber(a) /\ IsNumber(b)
    THEN IF ~is_integer(a) \/ ~is_integer(b) THEN Err("ModuloOnFloat", <<>>)
         ELSE IF b = Num(0) THEN Undefined
         ELSE NumModulo(a, b)
    ELSE Err("InvalidModulo", <<a, b>>)
mod_values(a, b) ==
    IF IsNumber(a) /\ IsNumber(b)
    THEN IF b = Num(0) THEN Undefined
         ELSE IF ~is_integer(a) \/ ~is_integer(b) THEN Err("ModuloOnFloat", <<>>)
         ELSE NumModulo(a, b)
    ELSE Err("InvalidModulo", <<a, b>>)
to_bool(x) == IF x = Undefined THEN FALSE ELSE IF x.k = "bool" THEN x.v ELSE TRUE

BinaryValue(op, a, b) ==
    CASE op = "Add" -> add_values(a, b)
      [] op = "Sub" -> sub_values(a, b)
      [] op = "Mul" -> mul_values(a, b)
      [] op = "Div" -> div_values(a, b)
      [] op = "Mod" -> mod_values(a, b)
      [] op = "Eq" -> Bool(a = b)
      [] op = "Ne" -> Bool(a # b)
      [] op = "Lt" -> Bool(ValueLess(a, b))
      [] op = "Le" -> Bool(ValueLess(a, b) \/ a = b)
      [] op = "Gt" -> Bool(ValueLess(b, a))
      [] op = "Ge" -> Bool(ValueLess(b, a) \/ a = b)

(***************************************************************************)
(* The condition handler.                                                  *)
(***************************************************************************)
\* the condition handler as it would be if an Every loop went on after a failure
handle_condition_every_goes_on(s, condition_passed) ==
    IF condition_passed THEN s
    ELSE IF s.loop_stack # <<>>
    THEN [s EXCEPT !.loop_stack[Len(s.loop_stack)].current_iteration_failed = TRUE,
                   !.pc = Last(s.loop_stack).loop_next_pc - 1]
    ELSE Raise(s, Err("AssertionFailed", <<>>))

handle_condition(s, condition_passed) ==
    IF condition_passed THEN s
    ELSE IF s.loop_stack # <<>>
    THEN LET loop_ctx == Last(s.loop_stack)
             n == Len(s.loop_stack)
         IN  CASE loop_ctx.mode = "Any" ->
                    [s EXCEPT !.loop_stack[n].current_iteration_failed = TRUE,
                              !.pc = loop_ctx.loop_next_pc - 1]
               [] loop_ctx.mode = "Every" ->
                    [SetReg(s, loop_ctx.result_reg, Bool(FALSE))
                        EXCEPT !.loop_stack = Front(s.loop_stack),
                               !.pc = loop_ctx.loop_end - 1]
               [] OTHER ->
                    [s EXCEPT !.loop_stack[n].current_iteration_failed = TRUE,
                              !.pc = loop_ctx.loop_next_pc - 1]
    ELSE Raise(s, Err("AssertionFailed", <<>>))

\* the arms as they would be if only the left operand were tested for Undefined
execute_binary_left_only(s, i) ==
    LET a == Reg(s, i.left)
        b == Reg(s, i.right)
    IN  IF a = Undefined THEN handle_condition(s, FALSE)
        ELSE LET r == BinaryValue(i.op, a, b)
             IN  IF IsErr(r) THEN Raise(s, r) ELSE SetReg(s, i.dest, r)

\* the match arms of Add .. Ge
execute_binary(s, i) ==
    LET a == Reg(s, i.left)
        b == Reg(s, i.right)
    IN  IF a = Undefined \/ b = Undefined THEN handle_condition(s, FALSE)
        ELSE LET r == BinaryValue(i.op, a, b)
             IN  IF IsErr(r) THEN Raise(s, r) ELSE SetReg(s, i.dest, r)

(***************************************************************************)
(* The iteration engine.                                                   *)
(***************************************************************************)
MinItem(S) == CHOOSE x \in S : \A y \in S \ {x} : ValueLess(x, y)

ArrayState(items) ==
    [kind |-> "Array", coll |-> items, index |-> 0, current |-> None, first_iteration |-> FALSE]
ObjectState(pairs) ==
    [kind |-> "Object", coll |-> pairs, index |-> 0, current |-> None, first_iteration |-> TRUE]
SetState(items) ==
    [kind |-> "Set", coll |-> items, index |-> 0, current |-> None, first_iteration |-> TRUE]

\* IterationState::advance
advance(st) ==
    IF st.kind = "Array" THEN [st EXCEPT !.index = st.index + 1]
    ELSE [st EXCEPT !.first_iteration = FALSE]

KeyValueRegs(s, key_reg, value_reg, key, value) ==
    SetReg(IF key_reg # value_reg THEN SetReg(s, key_reg, key) ELSE s, value_reg, value)

\* returns the state with the key/value registers populated, and has_next
setup_next_iteration(s, st, key_reg, value_reg) ==
    CASE st.kind = "Array" ->
            IF st.index < Len(st.coll)
            THEN [s |-> KeyValueRegs(s, key_reg, value_reg, Num(st.index), st.coll[st.index + 1]),
                  has_next |-> TRUE]
            ELSE [s |-> s, has_next |-> FALSE]
      [] st.kind = "Object" ->
            LET keys == IF st.first_iteration THEN {q[1] : q \in st.coll}
                        ELSE IF st.current # None
                             THEN {q[1] : q \in {r \in st.coll : ValueLess(st.current, r[1])}}
                             ELSE {}
            IN  IF keys = {} THEN [s |-> s, has_next |-> FALSE]
                ELSE LET key == MinItem(keys)
                     IN  [s |-> KeyValueRegs(s, key_reg, value_reg, key, ObjGet(Obj(st.coll), key)),
                          has_next |-> TRUE]
      [] st.kind = "Set" ->
            LET rest == IF st.first_iteration THEN st.coll
                        ELSE IF st.current # None
                             THEN {x \in st.coll : ValueLess(st.current, x)}
                             ELSE {}
            IN  IF rest = {} THEN [s |-> s, has_next |-> FALSE]
                ELSE LET item == MinItem(rest)
                     IN  [s |-> KeyValueRegs(s, key_reg, value_reg, item, item),
                          has_next |-> TRUE]

\* handle_empty_collection as it would be with false for every mode
handle_empty_collection_false(s, mode, result_reg, loop_end) ==
    [SetReg(s, result_reg, Bool(FALSE))
        EXCEPT !.pc = IF loop_end = 0 THEN 0 ELSE loop_end - 1]

handle_empty_collection(s, mode, result_reg, loop_end) ==
    [SetReg(s, result_reg, Bool(mode = "Every"))
        EXCEPT !.pc = IF loop_end = 0 THEN 0 ELSE loop_end - 1]

execute_loop_start(s, params) ==
    LET s1 == SetReg(s, params.result_reg, Bool(FALSE))
        collection_value == Reg(s1, params.collection)
        iterable == CASE IsArray(collection_value) -> collection_value.v # <<>>
                      [] IsObject(collection_value) \/ IsSet(collection_value) ->
                            collection_value.v # {}
                      [] OTHER -> FALSE
    IN  IF ~iterable
        THEN handle_empty_collection(s1, params.mode, params.result_reg, params.loop_end)
        ELSE LET st == CASE IsArray(collection_value) -> ArrayState(collection_value.v)
                         [] IsObject(collection_value) -> ObjectState(collection_value.v)
                         [] OTHER -> SetState(collection_value.v)
                 nx == setup_next_iteration(s1, st, params.key_reg, params.value_reg)
             IN  IF ~nx.has_next THEN [nx.s EXCEPT !.pc = params.loop_end]
                 ELSE [nx.s EXCEPT
                         !.loop_stack = Append(s1.loop_stack,
                             [mode |-> params.mode, iteration_state |-> st,
                              key_reg |-> params.key_reg, value_reg |-> params.value_reg,
                              result_reg |-> params.result_reg,
                              body_start |-> params.body_start, loop_end |-> params.loop_end,
                              loop_next_pc |-> params.loop_end - 1,
                              success_count |-> 0, total_iterations |-> 0,
                              current_iteration_failed |-> FALSE]),
                         !.pc = params.body_start - 1]

check_iteration_success(loop_ctx) == ~loop_ctx.current_iteration_failed

determine_loop_action(mode, success) ==
    IF mode = "Any" /\ success THEN "ExitWithSuccess"
    ELSE IF mode = "Every" /\ ~success THEN "ExitWithFailure"
    ELSE "Continue"

\* LoopNext as it would be if leaving the loop left the frame on the stack
execute_loop_next_keeping_frame(s, i) ==
    IF s.loop_stack = <<>> THEN [s EXCEPT !.pc = i.loop_end]
    ELSE
    LET popped == Last(s.loop_stack)
        s1 == [s EXCEPT !.loop_stack = Front(s.loop_stack)]
        iteration_succeeded == check_iteration_success(popped)
        c1 == [popped EXCEPT
                 !.total_iterations = popped.total_iterations + 1,
                 !.success_count = popped.success_count + (IF iteration_succeeded THEN 1 ELSE 0)]
        action == determine_loop_action(c1.mode, iteration_succeeded)
        st0 == c1.iteration_state
        st1 == IF st0.kind = "Object"
               THEN (IF c1.key_reg # c1.value_reg
                     THEN [st0 EXCEPT !.current = Reg(s1, c1.key_reg)] ELSE st0)
               ELSE IF st0.kind = "Set" THEN [st0 EXCEPT !.current = Reg(s1, c1.value_reg)]
               ELSE st0
        st2 == advance(st1)
        nx == setup_next_iteration(s1, st2, c1.key_reg, c1.value_reg)
        final_result == IF c1.mode = "Every" THEN Bool(c1.success_count = c1.total_iterations)
                        ELSE Bool(c1.success_count > 0)
    IN  CASE action = "ExitWithSuccess" ->
                [SetReg(s, c1.result_reg, Bool(TRUE)) EXCEPT !.pc = c1.loop_end - 1]
          [] action = "ExitWithFailure" ->
                [SetReg(s, c1.result_reg, Bool(FALSE)) EXCEPT !.pc = c1.loop_end - 1]
          [] OTHER ->
                IF nx.has_next
                THEN [nx.s EXCEPT
                        !.loop_stack = Append(s1.loop_stack,
                            [c1 EXCEPT !.iteration_state = st2,
                                       !.current_iteration_failed = FALSE]),
                        !.pc = c1.body_start - 1]
                ELSE [SetReg(nx.s, c1.result_reg, final_result)
                        EXCEPT !.loop_stack = s.loop_stack, !.pc = c1.loop_end - 1]

execute_loop_next(s, i) ==
    IF s.loop_stack = <<>> THEN [s EXCEPT !.pc = i.loop_end]
    ELSE
    LET popped == Last(s.loop_stack)
        s1 == [s EXCEPT !.loop_stack = Front(s.loop_stack)]
        iteration_succeeded == check_iteration_success(popped)
        c1 == [popped EXCEPT
                 !.total_iterations = popped.total_iterations + 1,
                 !.success_count = popped.success_count + (IF iteration_succeeded THEN 1 ELSE 0)]
        action == determine_loop_action(c1.mode, iteration_succeeded)
        st0 == c1.iteration_state
        st1 == IF st0.kind = "Object"
               THEN (IF c1.key_reg # c1.value_reg
                     THEN [st0 EXCEPT !.current = Reg(s1, c1.key_reg)] ELSE st0)
               ELSE IF st0.kind = "Set" THEN [st0 EXCEPT !.current = Reg(s1, c1.value_reg)]
               ELSE st0
        st2 == advance(st1)
        nx == setup_next_iteration(s1, st2, c1.key_reg, c1.value_reg)
        final_result == IF c1.mode = "Every" THEN Bool(c1.success_count = c1.total_iterations)
                        ELSE Bool(c1.success_count > 0)
    IN  CASE action = "ExitWithSuccess" ->
                [SetReg(s1, c1.result_reg, Bool(TRUE)) EXCEPT !.pc = c1.loop_end - 1]
          [] action = "ExitWithFailure" ->
                [SetReg(s1, c1.result_reg, Bool(FALSE)) EXCEPT !.pc = c1.loop_end - 1]
          [] OTHER ->
                IF nx.has_next
                THEN [nx.s EXCEPT
                        !.loop_stack = Append(s1.loop_stack,
                            [c1 EXCEPT !.iteration_state = st2,
                                       !.current_iteration_failed = FALSE]),
                        !.pc = c1.body_start - 1]
                ELSE [SetReg(nx.s, c1.result_reg, final_result) EXCEPT !.pc = c1.loop_end - 1]

(***************************************************************************)
(* The comprehension engine.                                               *)
(***************************************************************************)
execute_comprehension_begin(s, params) ==
    LET initial_result == CASE params.mode = "Set" -> new_set
                            [] params.mode = "Array" -> new_array
                            [] OTHER -> new_object
    IN  [SetReg(s, params.collection_reg, initial_result)
            EXCEPT !.comprehension_stack = Append(s.comprehension_stack,
                      [mode |-> params.mode, collection_reg |-> params.collection_reg,
                       comprehension_end |-> params.comprehension_end])]

\* a yield that reads the outermost comprehension frame
execute_comprehension_yield_outermost(s, value_reg, key_reg) ==
    IF s.comprehension_stack = <<>>
    THEN Raise(s, Err("InvalidIteration", <<Str("No active comprehension")>>))
    ELSE
    LET ctx == s.comprehension_stack[1]
        value_to_add == Reg(s, value_reg)
        current_result == Reg(s, ctx.collection_reg)
    IN  CASE ctx.mode = "Set" ->
                IF IsSet(current_result)
                THEN SetReg(s, ctx.collection_reg, SetOf(current_result.v \cup {value_to_add}))
                ELSE Raise(s, Err("InvalidIteration", <<current_result>>))
          [] ctx.mode = "Array" ->
                IF IsArray(current_result)
                THEN SetReg(s, ctx.collection_reg, Arr(Append(current_result.v, value_to_add)))
                ELSE Raise(s, Err("InvalidIteration", <<current_result>>))
          [] OTHER ->
                IF IsObject(current_result)
                THEN IF key_reg # NoIndex
                     THEN SetReg(s, ctx.collection_reg,
                                 ObjInsert(current_result, Reg(s, key_reg), value_to_add))
                     ELSE Raise(s, Err("InvalidIteration",
                                       <<Str("Object comprehension requires key")>>))
                ELSE Raise(s, Err("InvalidIteration", <<current_result>>))

execute_comprehension_yield(s, value_reg, key_reg) ==
    IF s.comprehension_stack = <<>>
    THEN Raise(s, Err("InvalidIteration", <<Str("No active comprehension")>>))
    ELSE
    LET ctx == Last(s.comprehension_stack)
        value_to_add == Reg(s, value_reg)
        current_result == Reg(s, ctx.collection_reg)
    IN  CASE ctx.mode = "Set" ->
                IF IsSet(current_result)
                THEN SetReg(s, ctx.collection_reg, SetOf(current_result.v \cup {value_to_add}))
                ELSE Raise(s, Err("InvalidIteration", <<current_result>>))
          [] ctx.mode = "Array" ->
                IF IsArray(current_result)
                THEN SetReg(s, ctx.collection_reg, Arr(Append(current_result.v, value_to_add)))
                ELSE Raise(s, Err("InvalidIteration", <<current_result>>))
          [] OTHER ->
                IF IsObject(current_result)
                THEN IF key_reg # NoIndex
                     THEN SetReg(s, ctx.collection_reg,
                                 ObjInsert(current_result, Reg(s, key_reg), value_to_add))
                     ELSE Raise(s, Err("InvalidIteration",
                                       <<Str("Object comprehension requires key")>>))
                ELSE Raise(s, Err("InvalidIteration", <<current_result>>))

execute_comprehension_end(s) ==
    IF s.comprehension_stack # <<>>
    THEN [s EXCEPT !.comprehension_stack = Front(s.comprehension_stack)]
    ELSE Raise(s, Err("InvalidIteration", <<Str("No active comprehension context")>>))

(***************************************************************************)
(* The rule-call engine.  A frame is one activation of                     *)
(* execute_rule_definitions_common: its locals, and what the instruction   *)
(* that made the call still has to do once the call returns (caller).      *)
(***************************************************************************)
Caller(kind, params_index, consumed, pending, root_path, result_subobject) ==
    [kind |-> kind, params_index |-> params_index, consumed |-> consumed,
     pending |-> pending, root_path |-> root_path, result_subobject |-> result_subobject]
\* a CallRule or FunctionCall instruction: nothing left to do but pc += 1
CallerInstr == Caller("instr", 0, 0, <<>>, <<>>, Undefined)

NoParams == [some |-> FALSE, args |-> <<>>]
SomeParams(params) == [some |-> TRUE, args |-> params.args]

\* literal-or-register path component; an error value for a bad literal index
ComponentValue(s, component) ==
    IF component.lit
    THEN IF LiteralInRange(component.idx) THEN Literals[component.idx + 1]
         ELSE Err("LiteralIndexOutOfBounds", <<component.idx>>)
    ELSE Reg(s, component.idx)

\* the values of a path, up to the first bad literal index (err)
RECURSIVE ResolvePath(_, _)
ResolvePath(s, components) ==
    IF components = <<>> THEN [err |-> None, path |-> <<>>]
    ELSE LET key_value == ComponentValue(s, components[1])
         IN  IF IsErr(key_value) THEN [err |-> key_value, path |-> <<>>]
             ELSE LET rest == ResolvePath(s, Tail(components))
                  IN  [err |-> rest.err, path |-> <<key_value>> \o rest.path]

\* Number::as_u64 of a rule-tree leaf
IsU64(x) == IsNumber(x) /\ is_integer(x) /\ x.v[1] >= 0

\* set_nested_value_static: the updated target, or the error
RECURSIVE set_nested_value_static(_, _, _)
set_nested_value_static(target, path, value) ==
    IF path = <<>> THEN value
    ELSE LET t == IF target = Undefined THEN new_object ELSE target
         IN  IF IsObject(t)
             THEN LET next_target == ObjGet(t, path[1])
                      sub == set_nested_value_static(next_target, Tail(path), value)
                  IN  IF IsErr(sub) THEN sub ELSE ObjInsert(t, path[1], sub)
             ELSE Err("InvalidRuleTreeEntry", <<t>>)

\* a lookup in `evaluated` that takes a stored Undefined for no entry
RECURSIVE cached_result_defined_only(_, _)
cached_result_defined_only(cache_lookup, full_cache_path) ==
    IF ~IsObject(cache_lookup) THEN None
    ELSE IF full_cache_path = <<>>
    THEN IF Undefined \in ObjKeys(cache_lookup) /\ ObjGet(cache_lookup, Undefined) # Undefined
         THEN ObjGet(cache_lookup, Undefined) ELSE None
    ELSE IF full_cache_path[1] \in ObjKeys(cache_lookup)
    THEN cached_result_defined_only(ObjGet(cache_lookup, full_cache_path[1]),
                                    Tail(full_cache_path))
    ELSE None

\* the lookup of full_cache_path in `evaluated`: Some(value) or None
RECURSIVE cached_result(_, _)
cached_result(cache_lookup, full_cache_path) ==
    IF ~IsObject(cache_lookup) THEN None
    ELSE IF full_cache_path = <<>>
    THEN IF Undefined \in ObjKeys(cache_lookup) THEN ObjGet(cache_lookup, Undefined) ELSE None
    ELSE IF full_cache_path[1] \in ObjKeys(cache_lookup)
    THEN cached_result(ObjGet(cache_lookup, full_cache_path[1]), Tail(full_cache_path))
    ELSE None

\* The rule leaves below a rule-tree node in the order in which
\* traverse_rule_tree_subobject_with_path meets them, with their relative paths.
RECURSIVE Leaves(_, _), LeavesOf(_, _, _)
LeavesOf(pairs, keys, relative_path) ==
    IF keys = <<>> THEN <<>>
    ELSE Leaves(ObjGet(Obj(pairs), keys[1]), Append(relative_path, keys[1]))
            \o LeavesOf(pairs, Tail(keys), relative_path)
Leaves(rule_tree_node, relative_path) ==
    CASE IsNumber(rule_tree_node) -> << [path |-> relative_path, node |-> rule_tree_node] >>
      [] IsObject(rule_tree_node) ->
            LeavesOf(rule_tree_node.v, SortedItems(ObjKeys(rule_tree_node)), relative_path)
      [] OTHER -> <<>>

\* a cache check that never finds a memoised result
cache_miss(s, rule_index) == FALSE

\* lines 1700-1702: the rule has a memoised result
cache_hit(s, rule_index) == ~is_function_rule(rule_index) /\ s.rule_cache[rule_index + 1][1]

\* a comparison that accepts every later result
always_consistent(expected, current_result) == FALSE

\* lines 1587-1588: a later successful result differs from the first one
inconsistent(expected, current_result) == expected # current_result

\* history: one completed call of rule_index and how it was answered
Logged(s, dest, rule_index, how, outcomes, failed_inconsistent, executed_before) ==
    [s EXCEPT !.calls = Append(@,
        [rule_index |-> rule_index, how |-> how, value |-> Reg(s, dest),
         outcomes |-> outcomes,
         inconsistent |-> failed_inconsistent,
         cache_after |-> s.rule_cache[rule_index + 1],
         executed_before |-> executed_before,
         executed_after |-> s.executed_instructions])]

\* Where control goes after a piece of the rule-call code: back to the dispatcher
\* with state s (Done), or on to another piece of it with arguments a (Goto)
Done(s) == [s |-> s, k |-> [op |-> "done", a |-> <<>>]]
Goto(s, op, a) == [s |-> s, k |-> [op |-> op, a |-> a]]

\* a driver that keeps the whole window from one body to the next
NextBody_without_reset(s, def_idx, body_idx) ==
    LET n == Len(s.frames)
        f == s.frames[n]
        rule_info == RuleInfos[f.rule_index + 1]
        rule_definitions == rule_info.definitions
    IN  IF def_idx >= Len(rule_definitions) THEN Goto(s, "FinishRule", <<FALSE>>)
        ELSE IF body_idx >= Len(rule_definitions[def_idx + 1])
        THEN Goto(s, "NextBody", <<def_idx + 1, 0>>)
        ELSE
        LET destructuring_entry_point ==
                IF def_idx < Len(rule_info.destructuring_blocks)
                THEN rule_info.destructuring_blocks[def_idx + 1] ELSE NoIndex
            m == Len(s.call_rule_stack)
        IN  Done([s EXCEPT
               !.call_rule_stack[m].current_body_index = body_idx,
               !.call_rule_stack[m].current_definition_index = def_idx,
               !.registers = Resize(s.registers, rule_info.num_registers),
               !.frames[n].def_idx = def_idx,
               !.frames[n].body_idx = body_idx,
               !.frames[n].phase = IF destructuring_entry_point # NoIndex
                                   THEN "destructuring" ELSE "body",
               !.pc = IF destructuring_entry_point # NoIndex THEN destructuring_entry_point
                      ELSE rule_definitions[def_idx + 1][body_idx + 1],
               !.status = "running", !.ret = None, !.flow = "enter"])

\* execute_rule_definitions_common, lines 1531-1578: iteration (def_idx, body_idx)
\* of the two nested `for` loops, up to the jump_to it makes
NextBody(s, def_idx, body_idx) ==
    LET n == Len(s.frames)
        f == s.frames[n]
        rule_info == RuleInfos[f.rule_index + 1]
        rule_definitions == rule_info.definitions
    IN  IF def_idx >= Len(rule_definitions) THEN Goto(s, "FinishRule", <<FALSE>>)
        ELSE IF body_idx >= Len(rule_definitions[def_idx + 1])
        THEN Goto(s, "NextBody", <<def_idx + 1, 0>>)
        ELSE
        LET destructuring_entry_point ==
                IF def_idx < Len(rule_info.destructuring_blocks)
                THEN rule_info.destructuring_blocks[def_idx + 1] ELSE NoIndex
            m == Len(s.call_rule_stack)
        IN  Done([s EXCEPT
               !.call_rule_stack[m].current_body_index = body_idx,
               !.call_rule_stack[m].current_definition_index = def_idx,
               !.registers = Resize(Resize(s.registers, f.num_retained_registers),
                                    rule_info.num_registers),
               !.frames[n].def_idx = def_idx,
               !.frames[n].body_idx = body_idx,
               !.frames[n].phase = IF destructuring_entry_point # NoIndex
                                   THEN "destructuring" ELSE "body",
               !.pc = IF destructuring_entry_point # NoIndex THEN destructuring_entry_point
                      ELSE rule_definitions[def_idx + 1][body_idx + 1],
               !.status = "running", !.ret = None, !.flow = "enter"])

\* the return from a rule call as it would be without the restore of loop_stack
FinishRule_keeping_callee_loops(s, rule_failed_due_to_inconsistency) ==
    LET f == Last(s.frames)
        rule_info == RuleInfos[f.rule_index + 1]
        final_result ==
            IF rule_failed_due_to_inconsistency THEN Undefined
            ELSE IF f.first_successful_result # None THEN f.first_successful_result
            ELSE Reg(s, rule_info.result_reg)
        call_context == Last(s.call_rule_stack)
        result_from_rule == IF ~rule_failed_due_to_inconsistency THEN final_result ELSE Undefined
        dest_value ==
            IF result_from_rule = Undefined /\ ~rule_failed_due_to_inconsistency
            THEN CASE call_context.rule_type = "PartialSet" -> new_set
                   [] call_context.rule_type = "PartialObject" -> new_object
                   [] OTHER ->
                        LET default_literal_index ==
                                RuleInfos[call_context.rule_index + 1].default_literal_index
                        IN  IF default_literal_index # NoIndex
                               /\ LiteralInRange(default_literal_index)
                            THEN Literals[default_literal_index + 1] ELSE Undefined
            ELSE result_from_rule
        s1 == [s EXCEPT
                 !.register_window_pool = Append(s.register_window_pool, <<>>),
                 !.registers = Last(s.register_stack),
                 !.register_stack = Front(s.register_stack),
                 !.comprehension_stack = f.old_comprehension_stack,
                 !.call_rule_stack = Front(s.call_rule_stack),
                 !.pc = call_context.return_pc,
                 !.frames = Front(s.frames),
                 !.status = "running", !.ret = None, !.flow = "next"]
        s2 == SetReg(s1, f.dest, dest_value)
        s3 == IF ~is_function_rule(f.rule_index)
              THEN [s2 EXCEPT !.rule_cache[f.rule_index + 1] = <<TRUE, dest_value>>]
              ELSE s2
    IN  Goto(Logged(s3, f.dest, f.rule_index, "run", f.outcomes,
                    rule_failed_due_to_inconsistency, f.executed_before),
             "AfterCall", <<f.caller>>)

\* lines 1636-1660 and 1771-1858: the end of the two loops and the rest of
\* execute_call_rule_common
FinishRule(s, rule_failed_due_to_inconsistency) ==
    LET f == Last(s.frames)
        rule_info == RuleInfos[f.rule_index + 1]
        final_result ==
            IF rule_failed_due_to_inconsistency THEN Undefined
            ELSE IF f.first_successful_result # None THEN f.first_successful_result
            ELSE Reg(s, rule_info.result_reg)
        call_context == Last(s.call_rule_stack)
        result_from_rule == IF ~rule_failed_due_to_inconsistency THEN final_result ELSE Undefined
        dest_value ==
            IF result_from_rule = Undefined /\ ~rule_failed_due_to_inconsistency
            THEN CASE call_context.rule_type = "PartialSet" -> new_set
                   [] call_context.rule_type = "PartialObject" -> new_object
                   [] OTHER ->
                        LET default_literal_index ==
                                RuleInfos[call_context.rule_index + 1].default_literal_index
                        IN  IF default_literal_index # NoIndex
                               /\ LiteralInRange(default_literal_index)
                            THEN Literals[default_literal_index + 1] ELSE Undefined
            ELSE result_from_rule
        s1 == [s EXCEPT
                 !.register_window_pool = Append(s.register_window_pool, <<>>),
                 !.registers = Last(s.register_stack),
                 !.register_stack = Front(s.register_stack),
                 !.loop_stack = f.old_loop_stack,
                 !.comprehension_stack = f.old_comprehension_stack,
                 !.call_rule_stack = Front(s.call_rule_stack),
                 !.pc = call_context.return_pc,
                 !.frames = Front(s.frames),
                 !.status = "running", !.ret = None, !.flow = "next"]
        s2 == SetReg(s1, f.dest, dest_value)
        s3 == IF ~is_function_rule(f.rule_index)
              THEN [s2 EXCEPT !.rule_cache[f.rule_index + 1] = <<TRUE, dest_value>>]
              ELSE s2
    IN  Goto(Logged(s3, f.dest, f.rule_index, "run", f.outcomes,
                    rule_failed_due_to_inconsistency, f.executed_before),
             "AfterCall", <<f.caller>>)

\* a rule call that does not memoise the answer of a rule without definitions
execute_call_rule_common_empty_uncached(s, dest, rule_index, function_call_params, caller) ==
    IF rule_index < 0 \/ rule_index >= Len(s.rule_cache)
    THEN Done(Raise(s, Err("RuleIndexOutOfBounds", <<rule_index>>)))
    ELSE
    LET rule_info == RuleInfos[rule_index + 1]
        cached == s.rule_cache[rule_index + 1]
    IN  IF cache_hit(s, rule_index)
        THEN Goto(Logged(SetReg(s, dest, cached[2]), dest, rule_index, "cached", <<>>, FALSE,
                         s.executed_instructions),
                  "AfterCall", <<caller>>)
        ELSE IF rule_info.definitions = <<>>
        THEN Goto(
               Logged(SetReg(s, dest, Undefined),
                      dest, rule_index, "empty", <<>>, FALSE, s.executed_instructions),
               "AfterCall", <<caller>>)
        ELSE
        LET register_window ==
                <<Undefined>> \o [a \in 1..Len(function_call_params.args) |->
                                    Reg(s, function_call_params.args[a])]
            num_retained_registers ==
                IF function_call_params.some THEN Len(function_call_params.args) + 1
                ELSE IF rule_info.rule_type \in {"PartialSet", "PartialObject"} THEN 1
                ELSE 0
            s1 == [s EXCEPT
                     !.call_rule_stack = Append(s.call_rule_stack,
                         [return_pc |-> s.pc, dest_reg |-> dest,
                          result_reg |-> rule_info.result_reg, rule_index |-> rule_index,
                          rule_type |-> rule_info.rule_type,
                          current_definition_index |-> 0, current_body_index |-> 0]),
                     !.register_window_pool =
                         IF s.register_window_pool = <<>> THEN <<>>
                         ELSE Front(s.register_window_pool),
                     !.register_stack = Append(s.register_stack, s.registers),
                     !.registers = register_window,
                     !.loop_stack = <<>>,
                     !.comprehension_stack = <<>>,
                     !.rule_runs[rule_index + 1] = s.rule_runs[rule_index + 1] + 1,
                     !.frames = Append(s.frames,
                         [rule_index |-> rule_index, dest |-> dest,
                          num_retained_registers |-> num_retained_registers,
                          def_idx |-> 0, body_idx |-> 0, phase |-> "body",
                          first_successful_result |-> None,
                          outcomes |-> <<>>,
                          executed_before |-> s.executed_instructions,
                          old_loop_stack |-> s.loop_stack,
                          old_comprehension_stack |-> s.comprehension_stack,
                          caller |-> caller])]
        IN  Goto(s1, "NextBody", <<0, 0>>)

\* execute_call_rule_common, lines 1674-1769, and the prologue of
\* execute_rule_definitions_common, lines 1470-1522
execute_call_rule_common(s, dest, rule_index, function_call_params, caller) ==
    IF rule_index < 0 \/ rule_index >= Len(s.rule_cache)
    THEN Done(Raise(s, Err("RuleIndexOutOfBounds", <<rule_index>>)))
    ELSE
    LET rule_info == RuleInfos[rule_index + 1]
        cached == s.rule_cache[rule_index + 1]
    IN  IF cache_hit(s, rule_index)
        THEN Goto(Logged(SetReg(s, dest, cached[2]), dest, rule_index, "cached", <<>>, FALSE,
                         s.executed_instructions),
                  "AfterCall", <<caller>>)
        ELSE IF rule_info.definitions = <<>>
        THEN Goto(
               Logged(SetReg(IF ~is_function_rule(rule_index)
                             THEN [s EXCEPT !.rule_cache[rule_index + 1] = <<TRUE, Undefined>>]
                             ELSE s,
                             dest, Undefined),
                      dest, rule_index, "empty", <<>>, FALSE, s.executed_instructions),
               "AfterCall", <<caller>>)
        ELSE
        LET register_window ==
                <<Undefined>> \o [a \in 1..Len(function_call_params.args) |->
                                    Reg(s, function_call_params.args[a])]
            num_retained_registers ==
                IF function_call_params.some THEN Len(function_call_params.args) + 1
                ELSE IF rule_info.rule_type \in {"PartialSet", "PartialObject"} THEN 1
                ELSE 0
            s1 == [s EXCEPT
                     !.call_rule_stack = Append(s.call_rule_stack,
                         [return_pc |-> s.pc, dest_reg |-> dest,
                          result_reg |-> rule_info.result_reg, rule_index |-> rule_index,
                          rule_type |-> rule_info.rule_type,
                          current_definition_index |-> 0, current_body_index |-> 0]),
                     !.register_window_pool =
                         IF s.register_window_pool = <<>> THEN <<>>
                         ELSE Front(s.register_window_pool),
                     !.register_stack = Append(s.register_stack, s.registers),
                     !.registers = register_window,
                     !.loop_stack = <<>>,
                     !.comprehension_stack = <<>>,
                     !.rule_runs[rule_index + 1] = s.rule_runs[rule_index + 1] + 1,
                     !.frames = Append(s.frames,
                         [rule_index |-> rule_index, dest |-> dest,
                          num_retained_registers |-> num_retained_registers,
                          def_idx |-> 0, body_idx |-> 0, phase |-> "body",
                          first_successful_result |-> None,
                          outcomes |-> <<>>,
                          executed_before |-> s.executed_instructions,
                          old_loop_stack |-> s.loop_stack,
                          old_comprehension_stack |-> s.comprehension_stack,
                          caller |-> caller])]
        IN  Goto(s1, "NextBody", <<0, 0>>)

\* traverse_rule_tree_subobject_with_path over the leaves still to visit
Traverse(s, c) ==
    IF c.pending = <<>>
    THEN Done(SetReg(s, Prog.virtual_data_document_lookup_params[c.params_index + 1].dest,
                     c.result_subobject))
    ELSE
    LET leaf == c.pending[1]
        full_cache_path == c.root_path \o leaf.path
        cached == cached_result(s.evaluated, full_cache_path)
    IN  IF ~IsU64(leaf.node) THEN Done(Raise(s, Err("InvalidRuleIndex", <<leaf.node>>)))
        ELSE IF cached # None
        THEN LET sub == set_nested_value_static(c.result_subobject, leaf.path, cached)
                 s1 == [s EXCEPT !.cache_hits = s.cache_hits + 1]
             IN  IF IsErr(sub) THEN Done(Raise(s1, sub))
                 ELSE Goto(s1, "Traverse", <<[c EXCEPT !.pending = Tail(c.pending),
                                                       !.result_subobject = sub]>>)
        ELSE LET temp_reg == Len(s.registers)
                 s1 == [s EXCEPT !.registers = Append(s.registers, Undefined)]
             IN  Goto(s1, "execute_call_rule_common",
                      <<temp_reg, leaf.node.v[1], NoParams, c>>)

\* AfterCall as it would be if a lookup left the rule's result in dest whatever
\* is left of the path
AfterCall_whole_result(s, c) ==
    CASE c.kind \in {"instr", "leaf"} -> Done(s)
      [] OTHER ->
            LET leaf == c.pending[1]
                result == Last(s.registers)
                s1 == [s EXCEPT !.registers = Front(s.registers)]
                cache == set_nested_value_static(
                            s1.evaluated, c.root_path \o leaf.path \o <<Undefined>>, result)
                sub == set_nested_value_static(c.result_subobject, leaf.path, result)
            IN  IF IsErr(cache) THEN Done(Raise(s1, cache))
                ELSE IF IsErr(sub) THEN Done(Raise([s1 EXCEPT !.evaluated = cache], sub))
                ELSE Goto([s1 EXCEPT !.evaluated = cache], "Traverse",
                          <<[c EXCEPT !.pending = Tail(c.pending),
                                      !.result_subobject = sub]>>)

\* what the calling instruction does after execute_call_rule_common returned Ok
AfterCall(s, c) ==
    CASE c.kind = "instr" -> Done(s)
      [] c.kind = "leaf" ->
            \* execute_virtual_data_document_lookup, lines 2117-2142
            LET params == Prog.virtual_data_document_lookup_params[c.params_index + 1]
                n == Len(params.path_components)
                remaining == ResolvePath(s, SubSeq(params.path_components, c.consumed + 1, n))
            IN  IF c.consumed >= n THEN Done(s)
                ELSE IF remaining.err # None
                THEN Done(Raise(s, remaining.err))
                ELSE Done(SetReg(s, params.dest,
                                 IndexPath(Reg(s, params.dest), remaining.path)))
      [] OTHER ->
            \* traverse_rule_tree_subobject_with_path, lines 2025-2040
            LET leaf == c.pending[1]
                result == Last(s.registers)
                s1 == [s EXCEPT !.registers = Front(s.registers)]
                cache == set_nested_value_static(
                            s1.evaluated, c.root_path \o leaf.path \o <<Undefined>>, result)
                sub == set_nested_value_static(c.result_subobject, leaf.path, result)
            IN  IF IsErr(cache) THEN Done(Raise(s1, cache))
                ELSE IF IsErr(sub) THEN Done(Raise([s1 EXCEPT !.evaluated = cache], sub))
                ELSE Goto([s1 EXCEPT !.evaluated = cache], "Traverse",
                          <<[c EXCEPT !.pending = Tail(c.pending),
                                      !.result_subobject = sub]>>)

\* The rule-call code run from one of its pieces to the point where control is
\* back with the dispatcher.
RECURSIVE Continue(_)
Continue(r) ==
    IF r.k.op = "done" THEN r.s
    ELSE LET s == r.s
             a == r.k.a
         IN  Continue(
               CASE r.k.op = "execute_call_rule_common" ->
                        execute_call_rule_common(s, a[1], a[2], a[3], a[4])
                 [] r.k.op = "NextBody" -> NextBody(s, a[1], a[2])
                 [] r.k.op = "FinishRule" -> FinishRule(s, a[1])
                 [] r.k.op = "AfterCall" -> AfterCall(s, a[1])
                 [] OTHER -> Traverse(s, a[1]))


\* the driver as it would be if a failed body ended its definition
rule_driver_skip_definition(s0) ==
    LET n == Len(s0.frames)
        f == s0.frames[n]
        rule_info == RuleInfos[f.rule_index + 1]
        current_result == Reg(s0, rule_info.result_reg)
        checked == rule_info.rule_type = "Complete" \/ is_function_rule(f.rule_index)
        \* history: what this run of a destructuring block or body came to
        s == [s0 EXCEPT !.frames[n].outcomes = Append(@,
                 [phase |-> f.phase, def_idx |-> f.def_idx, ok |-> ~IsErr(s0.ret),
                  result |-> IF IsErr(s0.ret) \/ f.phase = "destructuring" THEN s0.ret
                             ELSE current_result])]
        next_body == <<f.def_idx, f.body_idx + 1>>
    IN  Continue(
          IF f.phase = "destructuring"
          THEN IF IsErr(s.ret) THEN Goto(s, "NextBody", <<f.def_idx + 1, 0>>)
               ELSE Done([s EXCEPT !.frames[n].phase = "body",
                              !.pc = rule_info.definitions[f.def_idx + 1][f.body_idx + 1],
                              !.status = "running", !.ret = None, !.flow = "enter"])
          ELSE IF IsErr(s.ret) THEN Goto(s, "NextBody", <<f.def_idx + 1, 0>>)
          ELSE IF checked /\ current_result # Undefined
          THEN IF f.first_successful_result # None
               THEN IF inconsistent(f.first_successful_result, current_result)
                    THEN Goto(SetReg(s, rule_info.result_reg, Undefined), "FinishRule", <<TRUE>>)
                    ELSE Goto(s, "NextBody", next_body)
               ELSE Goto([s EXCEPT !.frames[n].first_successful_result = current_result],
                         "NextBody", next_body)
          ELSE Goto(s, "NextBody", next_body))

\* execute_rule_definitions_common, lines 1562-1634: what the driver does with the
\* result of the jump_to it made for the destructuring block or the body
rule_driver(s0) ==
    LET n == Len(s0.frames)
        f == s0.frames[n]
        rule_info == RuleInfos[f.rule_index + 1]
        current_result == Reg(s0, rule_info.result_reg)
        checked == rule_info.rule_type = "Complete" \/ is_function_rule(f.rule_index)
        \* history: what this run of a destructuring block or body came to
        s == [s0 EXCEPT !.frames[n].outcomes = Append(@,
                 [phase |-> f.phase, def_idx |-> f.def_idx, ok |-> ~IsErr(s0.ret),
                  result |-> IF IsErr(s0.ret) \/ f.phase = "destructuring" THEN s0.ret
                             ELSE current_result])]
        next_body == <<f.def_idx, f.body_idx + 1>>
    IN  Continue(
          IF f.phase = "destructuring"
          THEN IF IsErr(s.ret) THEN Goto(s, "NextBody", <<f.def_idx + 1, 0>>)
               ELSE Done([s EXCEPT !.frames[n].phase = "body",
                              !.pc = rule_info.definitions[f.def_idx + 1][f.body_idx + 1],
                              !.status = "running", !.ret = None, !.flow = "enter"])
          ELSE IF IsErr(s.ret) THEN Goto(s, "NextBody", next_body)
          ELSE IF checked /\ current_result # Undefined
          THEN IF f.first_successful_result # None
               THEN IF inconsistent(f.first_successful_result, current_result)
                    THEN Goto(SetReg(s, rule_info.result_reg, Undefined), "FinishRule", <<TRUE>>)
                    ELSE Goto(s, "NextBody", next_body)
               ELSE Goto([s EXCEPT !.frames[n].first_successful_result = current_result],
                         "NextBody", next_body)
          ELSE Goto(s, "NextBody", next_body))

(***************************************************************************)
(* The virtual data document lookup.                                       *)
(***************************************************************************)
\* a walk of the rule tree that stops on a leaf only
RECURSIVE Walk_past_misses(_, _, _, _)
Walk_past_misses(s, components, i, current_node) ==
    IF i >= Len(components) THEN [err |-> None, node |-> current_node, consumed |-> i]
    ELSE LET key_value == ComponentValue(s, components[i + 1])
             next == ValueIndex(current_node, key_value)
         IN  IF IsErr(key_value) THEN [err |-> key_value, node |-> current_node, consumed |-> i]
             ELSE IF IsNumber(next)
             THEN [err |-> None, node |-> next, consumed |-> i + 1]
             ELSE Walk_past_misses(s, components, i + 1, next)

\* lines 2078-2105: the walk of the rule tree; stops on Undefined or on a leaf
RECURSIVE Walk(_, _, _, _)
Walk(s, components, i, current_node) ==
    IF i >= Len(components) THEN [err |-> None, node |-> current_node, consumed |-> i]
    ELSE LET key_value == ComponentValue(s, components[i + 1])
             next == ValueIndex(current_node, key_value)
         IN  IF IsErr(key_value) THEN [err |-> key_value, node |-> current_node, consumed |-> i]
             ELSE IF next = Undefined \/ IsNumber(next)
             THEN [err |-> None, node |-> next, consumed |-> i + 1]
             ELSE Walk(s, components, i + 1, next)

execute_virtual_data_document_lookup(s, params_index) ==
    IF params_index >= Len(Prog.virtual_data_document_lookup_params)
    THEN Raise(s, Err("InvalidVirtualDataDocumentLookupParams", <<params_index>>))
    ELSE
    LET params == Prog.virtual_data_document_lookup_params[params_index + 1]
        n == Len(params.path_components)
        w == Walk(s, params.path_components, 0, ValueIndex(Prog.rule_tree, Str("data")))
        current_node == w.node
        whole == ResolvePath(s, params.path_components)
    IN  IF w.err # None THEN Raise(s, w.err)
        ELSE IF IsNumber(current_node)
        THEN IF IsU64(current_node)
             THEN Continue(
                    execute_call_rule_common(s, params.dest, current_node.v[1], NoParams,
                                             Caller("leaf", params_index, w.consumed, <<>>, <<>>,
                                                    Undefined)))
             ELSE Raise(s, Err("InvalidRuleIndex", <<current_node>>))
        ELSE IF (current_node = Undefined \/ IsObject(current_node)) /\ w.consumed # n
        THEN IF whole.err # None THEN Raise(s, whole.err)
             ELSE SetReg(s, params.dest, IndexPath(data, whole.path))
        ELSE IF IsObject(current_node)
        THEN \* execute_virtual_data_document_lookup_subobject
             IF whole.err # None THEN Raise(s, whole.err)
             ELSE LET data_subobject == IndexPath(data, whole.path)
                      result_subobject == IF data_subobject = Undefined THEN new_object
                                          ELSE data_subobject
                  IN  Continue(
                        Traverse(s, Caller("sub", params_index, n, Leaves(current_node, <<>>),
                                           whole.path, result_subobject)))
        ELSE Raise(s, Err("InvalidRuleTreeEntry", <<current_node>>))

execute_function_call(s, params_index) ==
    LET params == Prog.function_call_params[params_index + 1]
    IN  Continue(execute_call_rule_common(s, params.dest, params.func_rule_index,
                                          SomeParams(params), CallerInstr))

execute_call_rule(s, dest, rule_index) ==
    Continue(execute_call_rule_common(s, dest, rule_index, NoParams, CallerInstr))

\* RuleInit that empties the accumulator in every body
execute_rule_init_every_body(s, result_reg) ==
    LET m == Len(s.call_rule_stack)
        current_ctx == s.call_rule_stack[m]
        s1 == [s EXCEPT !.call_rule_stack[m].result_reg = result_reg]
    IN  CASE current_ctx.rule_type = "Complete" -> SetReg(s1, result_reg, Undefined)
          [] current_ctx.rule_type = "PartialSet" -> SetReg(s1, result_reg, new_set)
          [] OTHER -> SetReg(s1, result_reg, new_object)

execute_rule_init(s, result_reg) ==
    LET m == Len(s.call_rule_stack)
        current_ctx == s.call_rule_stack[m]
        first == current_ctx.current_definition_index = 0 /\ current_ctx.current_body_index = 0
        s1 == [s EXCEPT !.call_rule_stack[m].result_reg = result_reg]
    IN  CASE current_ctx.rule_type = "Complete" -> SetReg(s1, result_reg, Undefined)
          [] current_ctx.rule_type = "PartialSet" ->
                IF first THEN SetReg(s1, result_reg, new_set) ELSE s1
          [] OTHER -> IF first THEN SetReg(s1, result_reg, new_object) ELSE s1

(***************************************************************************)
(* The dispatcher (jump_to).                                               *)
(***************************************************************************)
\* the match arms of jump_to that are written in place
Instruction_Load(s, i) ==
    IF LiteralInRange(i.literal_idx) THEN SetReg(s, i.dest, Literals[i.literal_idx + 1])
    ELSE Raise(s, Err("LiteralIndexOutOfBounds", <<i.literal_idx>>))
Instruction_LoadTrue(s, i) == SetReg(s, i.dest, Bool(TRUE))
Instruction_LoadFalse(s, i) == SetReg(s, i.dest, Bool(FALSE))
Instruction_LoadNull(s, i) == SetReg(s, i.dest, Null)
Instruction_LoadData(s, i) == SetReg(s, i.dest, data)
Instruction_LoadInput(s, i) == SetReg(s, i.dest, input)
Instruction_Move(s, i) == SetReg(s, i.dest, Reg(s, i.src))
Instruction_Return(s, i) == Ok(s, Reg(s, i.value))
Instruction_DestructuringSuccess(s, i) == Ok(s, Reg(s, 0))
Instruction_RuleReturn(s, i) == Ok(s, Reg(s, 0))
Instruction_ObjectSet(s, i) ==
    IF IsObject(Reg(s, i.obj))
    THEN SetReg(s, i.obj, ObjInsert(Reg(s, i.obj), Reg(s, i.key), Reg(s, i.value)))
    ELSE Raise(s, Err("RegisterNotObject", <<i.obj>>))
Instruction_Index(s, i) == SetReg(s, i.dest, ValueIndex(Reg(s, i.container), Reg(s, i.key)))
Instruction_IndexLiteral(s, i) ==
    IF LiteralInRange(i.literal_idx)
    THEN SetReg(s, i.dest, ValueIndex(Reg(s, i.container), Literals[i.literal_idx + 1]))
    ELSE Raise(s, Err("LiteralIndexOutOfBounds", <<i.literal_idx>>))
Instruction_SetAdd(s, i) ==
    IF IsSet(Reg(s, i.set))
    THEN SetReg(s, i.set, SetOf(Reg(s, i.set).v \cup {Reg(s, i.value)}))
    ELSE Raise(s, Err("RegisterNotSet", <<i.set>>))
Instruction_AssertCondition(s, i) ==
    LET value == Reg(s, i.condition)
    IN  handle_condition(s, IF value.k = "bool" THEN value.v ELSE value # Undefined)
Instruction_AssertNotUndefined(s, i) == handle_condition(s, Reg(s, i.register) # Undefined)
Instruction_LoopStart(s, i) == execute_loop_start(s, Prog.loop_params[i.params_index + 1])
Instruction_Halt(s, i) == Ok(s, Reg(s, 0))
Instruction_ComprehensionBegin(s, i) ==
    IF i.params_index < Len(Prog.comprehension_begin_params)
    THEN execute_comprehension_begin(s, Prog.comprehension_begin_params[i.params_index + 1])
    ELSE Raise(s, Err("InvalidComprehensionBeginParams", <<i.params_index>>))
Instruction_ComprehensionYield(s, i) == execute_comprehension_yield(s, i.value_reg, i.key_reg)
Instruction_ComprehensionEnd(s, i) == execute_comprehension_end(s)

\* any_undefined of ObjectCreate as it would be if only value registers were tested
any_undefined_value(s, params) ==
    \/ \E j \in 1..Len(params.literal_key_field_pairs) :
          Reg(s, params.literal_key_field_pairs[j][2]) = Undefined
    \/ \E j \in 1..Len(params.field_pairs) : Reg(s, params.field_pairs[j][2]) = Undefined
\* any_undefined of ObjectCreate
any_undefined(s, params) ==
    \/ \E j \in 1..Len(params.literal_key_field_pairs) :
          Reg(s, params.literal_key_field_pairs[j][2]) = Undefined
    \/ \E j \in 1..Len(params.field_pairs) :
          \/ Reg(s, params.field_pairs[j][1]) = Undefined
          \/ Reg(s, params.field_pairs[j][2]) = Undefined

\* the walk over the template's keys (ascending) next to the literal updates:
\* an update is applied in place when its key is the key being visited
RECURSIVE update_template(_, _, _, _)
update_template(s, obj, keys, updates) ==
    IF keys = <<>> \/ updates = <<>> THEN [obj |-> obj, updates |-> updates]
    ELSE IF LiteralInRange(updates[1][1]) /\ keys[1] = Literals[updates[1][1] + 1]
    THEN update_template(s, ObjInsert(obj, keys[1], Reg(s, updates[1][2])),
                         Tail(keys), Tail(updates))
    ELSE update_template(s, obj, Tail(keys), updates)
\* the insertion of the literal updates left over, were a key already in the
\* object left as it is
RECURSIVE insert_literal_keys_absent_only(_, _, _)
insert_literal_keys_absent_only(s, obj, updates) ==
    IF updates = <<>> THEN obj
    ELSE insert_literal_keys_absent_only(
           s,
           IF LiteralInRange(updates[1][1]) /\ Literals[updates[1][1] + 1] \notin ObjKeys(obj)
           THEN ObjInsert(obj, Literals[updates[1][1] + 1], Reg(s, updates[1][2]))
           ELSE obj,
           Tail(updates))
\* the literal updates left over are inserted
RECURSIVE insert_literal_keys(_, _, _)
insert_literal_keys(s, obj, updates) ==
    IF updates = <<>> THEN obj
    ELSE insert_literal_keys(
           s,
           IF LiteralInRange(updates[1][1])
           THEN ObjInsert(obj, Literals[updates[1][1] + 1], Reg(s, updates[1][2]))
           ELSE obj,
           Tail(updates))
\* then the pairs whose key is in a register
RECURSIVE insert_field_pairs(_, _, _)
insert_field_pairs(s, obj, pairs) ==
    IF pairs = <<>> THEN obj
    ELSE insert_field_pairs(s, ObjInsert(obj, Reg(s, pairs[1][1]), Reg(s, pairs[1][2])),
                            Tail(pairs))

Instruction_ObjectCreate(s, i) ==
    IF i.params_index >= Len(Prog.object_create_params)
    THEN Raise(s, Err("InvalidObjectCreateParams", <<i.params_index>>))
    ELSE LET params == Prog.object_create_params[i.params_index + 1]
         IN  IF any_undefined(s, params) THEN SetReg(s, params.dest, Undefined)
             ELSE IF ~LiteralInRange(params.template_literal_idx)
             THEN Raise(s, Err("InvalidTemplateLiteralIndex", <<params.template_literal_idx>>))
             ELSE LET template == Literals[params.template_literal_idx + 1]
                  IN  IF ~IsObject(template)
                      THEN Raise(s, Err("ObjectCreateInvalidTemplate", <<>>))
                      ELSE LET u == update_template(s, template,
                                                    SortedItems(ObjKeys(template)),
                                                    params.literal_key_field_pairs)
                           IN  SetReg(s, params.dest,
                                      insert_field_pairs(
                                        s, insert_literal_keys(s, u.obj, u.updates),
                                        params.field_pairs))

Instruction_ArrayCreate(s, i) ==
    IF i.params_index >= Len(Prog.array_create_params)
    THEN Raise(s, Err("InvalidArrayCreateParams", <<i.params_index>>))
    ELSE LET params == Prog.array_create_params[i.params_index + 1]
             regs == params.element_registers
         IN  IF \E j \in 1..Len(regs) : Reg(s, regs[j]) = Undefined
             THEN SetReg(s, params.dest, Undefined)
             ELSE SetReg(s, params.dest, Arr([j \in 1..Len(regs) |-> Reg(s, regs[j])]))

Instruction_SetCreate(s, i) ==
    IF i.params_index >= Len(Prog.set_create_params)
    THEN Raise(s, Err("InvalidSetCreateParams", <<i.params_index>>))
    ELSE LET params == Prog.set_create_params[i.params_index + 1]
             regs == params.element_registers
         IN  IF \E j \in 1..Len(regs) : Reg(s, regs[j]) = Undefined
             THEN SetReg(s, params.dest, Undefined)
             ELSE SetReg(s, params.dest, SetOf({Reg(s, regs[j]) : j \in 1..Len(regs)}))

\* the traversal that never leaves the loop at an Undefined value
RECURSIVE chained_index_no_break(_, _, _)
chained_index_no_break(s, current_value, path_components) ==
    IF path_components = <<>> THEN current_value
    ELSE LET key_value == ComponentValue(s, path_components[1])
         IN  IF IsErr(key_value) THEN key_value
             ELSE chained_index_no_break(s, ValueIndex(current_value, key_value),
                                         Tail(path_components))

\* the `for component in &params.path_components` loop of ChainedIndex: the
\* value reached, or the error of a bad literal index met on the way
RECURSIVE chained_index(_, _, _)
chained_index(s, current_value, path_components) ==
    IF path_components = <<>> THEN current_value
    ELSE LET key_value == ComponentValue(s, path_components[1])
         IN  IF IsErr(key_value) THEN key_value
             ELSE LET next_value == ValueIndex(current_value, key_value)
                  IN  IF next_value = Undefined THEN Undefined
                      ELSE chained_index(s, next_value, Tail(path_components))

Instruction_ChainedIndex(s, i) ==
    IF i.params_index >= Len(Prog.chained_index_params)
    THEN Raise(s, Err("InvalidChainedIndexParams", <<i.params_index>>))
    ELSE LET params == Prog.chained_index_params[i.params_index + 1]
             current_value == chained_index(s, Reg(s, params.root), params.path_components)
         IN  IF IsErr(current_value) THEN Raise(s, current_value)
             ELSE SetReg(s, params.dest, current_value)

\* a dispatcher that does not count the instruction
Fetch_uncounted(s) == s

\* line 705: the instruction is counted before it is executed
Fetch(s) == [s EXCEPT !.executed_instructions = s.executed_instructions + 1]
\* line 1453: pc += 1 unless the loop was left or a nested jump_to was started
Finish(t) == IF t.status = "running" /\ t.flow = "next" THEN [t EXCEPT !.pc = t.pc + 1] ELSE t

\* the `match instruction` of jump_to
execute_instruction(s, i) ==
    CASE i.op = "Load" -> Instruction_Load(s, i)
      [] i.op = "LoadTrue" -> Instruction_LoadTrue(s, i)
      [] i.op = "LoadFalse" -> Instruction_LoadFalse(s, i)
      [] i.op = "LoadNull" -> Instruction_LoadNull(s, i)
      [] i.op = "LoadData" -> Instruction_LoadData(s, i)
      [] i.op = "LoadInput" -> Instruction_LoadInput(s, i)
      [] i.op = "Move" -> Instruction_Move(s, i)
      [] i.op \in ArithOps \cup CompareOps -> execute_binary(s, i)
      [] i.op = "FunctionCall" -> execute_function_call(s, i.params_index)
      [] i.op = "Return" -> Instruction_Return(s, i)
      [] i.op = "CallRule" -> execute_call_rule(s, i.dest, i.rule_index)
      [] i.op = "RuleInit" -> execute_rule_init(s, i.result_reg)
      [] i.op = "DestructuringSuccess" -> Instruction_DestructuringSuccess(s, i)
      [] i.op = "RuleReturn" -> Instruction_RuleReturn(s, i)
      [] i.op = "ObjectSet" -> Instruction_ObjectSet(s, i)
      [] i.op = "Index" -> Instruction_Index(s, i)
      [] i.op = "IndexLiteral" -> Instruction_IndexLiteral(s, i)
      [] i.op = "SetAdd" -> Instruction_SetAdd(s, i)
      [] i.op = "AssertCondition" -> Instruction_AssertCondition(s, i)
      [] i.op = "AssertNotUndefined" -> Instruction_AssertNotUndefined(s, i)
      [] i.op = "LoopStart" -> Instruction_LoopStart(s, i)
      [] i.op = "LoopNext" -> execute_loop_next(s, i)
      [] i.op = "Halt" -> Instruction_Halt(s, i)
      [] i.op = "VirtualDataDocumentLookup" -> execute_virtual_data_document_lookup(s, i.params_index)
      [] i.op = "ComprehensionBegin" -> Instruction_ComprehensionBegin(s, i)
      [] i.op = "ComprehensionYield" -> Instruction_ComprehensionYield(s, i)
      [] i.op = "ComprehensionEnd" -> Instruction_ComprehensionEnd(s, i)
      [] i.op = "ObjectCreate" -> Instruction_ObjectCreate(s, i)
      [] i.op = "ArrayCreate" -> Instruction_ArrayCreate(s, i)
      [] i.op = "SetCreate" -> Instruction_SetCreate(s, i)
      [] i.op = "ChainedIndex" -> Instruction_ChainedIndex(s, i)

\* lines 697-702
limit_exceeded(s) == Raise(s, Err("InstructionLimitExceeded", <<s.max_instructions>>))
\* lines 1456-1460
end_of_instructions(s) == Ok(s, Reg(s, 0))
\* the host call returns what the outermost jump_to returned
host_return(s) == [s EXCEPT !.status = "idle"]

\* one turn of the `while` loop of jump_to, or one step of its caller
jump_to(s0) ==
    LET s == [s0 EXCEPT !.flow = "next"]
    IN  IF s.status = "returned"
        THEN IF s.frames = <<>> THEN host_return(s) ELSE Finish(rule_driver(s))
        ELSE IF s.pc >= NumInstructions THEN end_of_instructions(s)
        ELSE IF s.executed_instructions >= s.max_instructions THEN limit_exceeded(s)
        ELSE Finish(execute_instruction(Fetch(s), Prog.instructions[s.pc + 1]))

(***************************************************************************)
(* Host calls.                                                             *)
(***************************************************************************)
\* return_to_pools as it would be without loop_stack.clear()
return_to_pools_keeping_loops(s) ==
    [s EXCEPT !.call_rule_stack = <<>>, !.comprehension_stack = <<>>,
              !.register_window_pool =
                  s.register_window_pool \o [j \in 1..Len(s.register_stack) |-> <<>>],
              !.register_stack = <<>>]

\* return_to_pools
return_to_pools(s) ==
    [s EXCEPT !.loop_stack = <<>>, !.call_rule_stack = <<>>, !.comprehension_stack = <<>>,
              !.register_window_pool =
                  s.register_window_pool \o [j \in 1..Len(s.register_stack) |-> <<>>],
              !.register_stack = <<>>]

\* reset_execution_state as it would be without the reset of rule_cache
reset_keeping_rule_cache(s) ==
    [s EXCEPT
        !.loop_stack = <<>>, !.call_rule_stack = <<>>, !.comprehension_stack = <<>>,
        !.register_window_pool =
            s.register_window_pool \o [j \in 1..Len(s.register_stack) |-> <<>>],
        !.register_stack = <<>>,
        !.executed_instructions = 0,
        !.pc = 0,
        !.evaluated = new_object,
        !.cache_hits = 0,
        !.registers = [r \in 1..base_register_count |-> Null]]

reset_execution_state(s) ==
    [return_to_pools(s) EXCEPT
        !.executed_instructions = 0,
        !.pc = 0,
        !.evaluated = new_object,
        !.cache_hits = 0,
        !.rule_cache = [r \in 1..Len(RuleInfos) |-> <<FALSE, Undefined>>],
        !.registers = [r \in 1..base_register_count |-> Null]]

\* history: what the execution that ended before this one had left in the VM
\* (an error inside a loop and a comprehension, after rule calls and lookups)
Residue(s) ==
    /\ s.loop_stack # <<>> /\ s.comprehension_stack # <<>>
    /\ \E r \in 1..Len(s.rule_cache) : s.rule_cache[r][1]
    /\ s.evaluated # new_object /\ s.cache_hits > 0
    /\ IsErr(s.ret)
NoResidue == FALSE

\* load_program, line 339
dispatch_size(p) ==
    IF p.dispatch_window_size < 2 THEN 2 ELSE p.dispatch_window_size

\* the VM right after RegoVM::new, load_program, set_data and set_input
LoadedVM(p) ==
    [registers |-> [r \in 1..dispatch_size(p) |-> Null],
     pc |-> p.main_entry_point,
     rule_cache |-> [r \in 1..Len(p.rule_infos) |-> <<FALSE, Undefined>>],
     loop_stack |-> <<>>, call_rule_stack |-> <<>>, register_stack |-> <<>>,
     comprehension_stack |-> <<>>, register_window_pool |-> <<>>,
     executed_instructions |-> 0, evaluated |-> new_object, cache_hits |-> 0,
     frames |-> <<>>, status |-> "idle", ret |-> None,
     rule_runs |-> [r \in 1..Len(p.rule_infos) |-> 0],
     raised |-> <<>>, calls |-> <<>>, entry |-> NoIndex, residue |-> NoResidue,
     max_instructions |-> max_instructions,
     flow |-> "next"]

DefaultMaxInstructions == 25000
MaxBudget == 5
Budgets == 0..MaxBudget \cup {DefaultMaxInstructions}
\* the entry points a host may ask for: those of the program, and one too many
EntryIndexes == 0..Len(Prog.entry_points)
EntryNames == {Prog.entry_points[i][1] : i \in 1..Len(Prog.entry_points)} \cup {"none"}

Init ==
    /\ program \in {Programs[p] : p \in 1..Len(Programs)}
    /\ data = program.data
    /\ input \in InputSet
    /\ base_register_count = dispatch_size(program)
    /\ max_instructions = DefaultMaxInstructions
    /\ registers = LoadedVM(program).registers
    /\ pc = LoadedVM(program).pc
    /\ rule_cache = LoadedVM(program).rule_cache
    /\ loop_stack = <<>> /\ call_rule_stack = <<>> /\ register_stack = <<>>
    /\ comprehension_stack = <<>> /\ register_window_pool = <<>>
    /\ executed_instructions = 0 /\ evaluated = new_object /\ cache_hits = 0
    /\ frames = <<>> /\ status = "idle" /\ ret = None
    /\ rule_runs = LoadedVM(program).rule_runs
    /\ raised = <<>> /\ calls = <<>> /\ entry = NoIndex /\ residue = NoResidue

set_max_instructions(max) ==
    /\ status = "idle"
    /\ max_instructions' = max
    /\ UNCHANGED <<vmvars, program, data, input, base_register_count>>

set_input(value) ==
    /\ status = "idle"
    /\ input' = value
    /\ UNCHANGED <<vmvars, program, data, base_register_count, max_instructions>>

\* reset_execution_state, then jump_to(target) up to the top of its loop
Start(s, target) ==
    [reset_execution_state(s) EXCEPT
        !.pc = target, !.status = "running", !.ret = None,
        !.frames = <<>>, !.rule_runs = [r \in 1..Len(RuleInfos) |-> 0],
        !.raised = <<>>, !.calls = <<>>, !.entry = target, !.residue = Residue(s)]

\* a refusal as it would be if the reset came before the entry point is looked up
Refuse_after_reset(s, e) == [reset_execution_state(s) EXCEPT !.ret = e]

\* a host call that fails before the reset
Refuse(s, e) == [s EXCEPT !.ret = e]

\* validate_vm_state
validate_vm_state(s) ==
    /\ Len(s.registers) >= base_register_count
    /\ s.pc < NumInstructions
    /\ Len(s.rule_cache) = Len(RuleInfos)

execute ==
    /\ status = "idle"
    /\ Become(Start(VM, 0))

\* Program::get_entry_point: the pc of the entry point, or NoIndex
get_entry_point(name) ==
    IF \E i \in 1..Len(Prog.entry_points) : Prog.entry_points[i][1] = name
    THEN Prog.entry_points[CHOOSE i \in 1..Len(Prog.entry_points) :
                               Prog.entry_points[i][1] = name][2]
    ELSE NoIndex

entry_point(s, entry_point_pc) ==
    IF entry_point_pc >= NumInstructions THEN Refuse(s, Err("Internal", <<>>))
    ELSE IF ~validate_vm_state(reset_execution_state(s))
    THEN [reset_execution_state(s) EXCEPT !.ret = Err("Internal", <<>>)]
    ELSE Start(s, entry_point_pc)

execute_entry_point_by_index(index) ==
    /\ status = "idle"
    /\ IF index >= Len(Prog.entry_points)
       THEN Become(Refuse(VM, Err("InvalidEntryPointIndex",
                       <<index, IF Prog.entry_points = <<>> THEN 0
                                ELSE Len(Prog.entry_points) - 1>>)))
       ELSE Become(entry_point(VM, Prog.entry_points[index + 1][2]))

execute_entry_point_by_name(name) ==
    /\ status = "idle"
    /\ IF get_entry_point(name) = NoIndex
       THEN Become(Refuse(VM, Err("EntryPointNotFound",
                       <<name, [i \in 1..Len(Prog.entry_points) |-> Prog.entry_points[i][1]]>>)))
       ELSE Become(entry_point(VM, get_entry_point(name)))

\* the dispatcher as it would be without the instruction budget
Dispatching_unlimited(op) ==
    /\ status = "running"
    /\ pc < NumInstructions
    /\ CurInstr.op = op

\* the dispatcher is about to execute an instruction of the kind op
Dispatching(op) ==
    /\ status = "running"
    /\ pc < NumInstructions
    /\ executed_instructions < max_instructions
    /\ CurInstr.op = op

Load ==
    /\ Dispatching("Load")
    /\ Become(Finish(Instruction_Load(Fetch(VM), CurInstr)))

LoadTrue ==
    /\ Dispatching("LoadTrue")
    /\ Become(Finish(Instruction_LoadTrue(Fetch(VM), CurInstr)))

LoadFalse ==
    /\ Dispatching("LoadFalse")
    /\ Become(Finish(Instruction_LoadFalse(Fetch(VM), CurInstr)))

LoadNull ==
    /\ Dispatching("LoadNull")
    /\ Become(Finish(Instruction_LoadNull(Fetch(VM), CurInstr)))

LoadData ==
    /\ Dispatching("LoadData")
    /\ Become(Finish(Instruction_LoadData(Fetch(VM), CurInstr)))

LoadInput ==
    /\ Dispatching("LoadInput")
    /\ Become(Finish(Instruction_LoadInput(Fetch(VM), CurInstr)))

Move ==
    /\ Dispatching("Move")
    /\ Become(Finish(Instruction_Move(Fetch(VM), CurInstr)))

Add ==
    /\ Dispatching("Add")
    /\ Become(Finish(execute_binary(Fetch(VM), CurInstr)))

Sub ==
    /\ Dispatching("Sub")
    /\ Become(Finish(execute_binary(Fetch(VM), CurInstr)))

Mul ==
    /\ Dispatching("Mul")
    /\ Become(Finish(execute_binary(Fetch(VM), CurInstr)))

Div ==
    /\ Dispatching("Div")
    /\ Become(Finish(execute_binary(Fetch(VM), CurInstr)))

Mod ==
    /\ Dispatching("Mod")
    /\ Become(Finish(execute_binary(Fetch(VM), CurInstr)))

Eq ==
    /\ Dispatching("Eq")
    /\ Become(Finish(execute_binary(Fetch(VM), CurInstr)))

Ne ==
    /\ Dispatching("Ne")
    /\ Become(Finish(execute_binary(Fetch(VM), CurInstr)))

Lt ==
    /\ Dispatching("Lt")
    /\ Become(Finish(execute_binary(Fetch(VM), CurInstr)))

Le ==
    /\ Dispatching("Le")
    /\ Become(Finish(execute_binary(Fetch(VM), CurInstr)))

Gt ==
    /\ Dispatching("Gt")
    /\ Become(Finish(execute_binary(Fetch(VM), CurInstr)))

Ge ==
    /\ Dispatching("Ge")
    /\ Become(Finish(execute_binary(Fetch(VM), CurInstr)))

FunctionCall ==
    /\ Dispatching("FunctionCall")
    /\ Become(Finish(execute_function_call(Fetch(VM), CurInstr.params_index)))

Return ==
    /\ Dispatching("Return")
    /\ Become(Finish(Instruction_Return(Fetch(VM), CurInstr)))

CallRule ==
    /\ Dispatching("CallRule")
    /\ Become(Finish(execute_call_rule(Fetch(VM), CurInstr.dest, CurInstr.rule_index)))

RuleInit ==
    /\ Dispatching("RuleInit")
    /\ Become(Finish(execute_rule_init(Fetch(VM), CurInstr.result_reg)))

DestructuringSuccess ==
    /\ Dispatching("DestructuringSuccess")
    /\ Become(Finish(Instruction_DestructuringSuccess(Fetch(VM), CurInstr)))

RuleReturn ==
    /\ Dispatching("RuleReturn")
    /\ Become(Finish(Instruction_RuleReturn(Fetch(VM), CurInstr)))

ObjectSet ==
    /\ Dispatching("ObjectSet")
    /\ Become(Finish(Instruction_ObjectSet(Fetch(VM), CurInstr)))

Index ==
    /\ Dispatching("Index")
    /\ Become(Finish(Instruction_Index(Fetch(VM), CurInstr)))

IndexLiteral ==
    /\ Dispatching("IndexLiteral")
    /\ Become(Finish(Instruction_IndexLiteral(Fetch(VM), CurInstr)))

SetAdd ==
    /\ Dispatching("SetAdd")
    /\ Become(Finish(Instruction_SetAdd(Fetch(VM), CurInstr)))

AssertCondition ==
    /\ Dispatching("AssertCondition")
    /\ Become(Finish(Instruction_AssertCondition(Fetch(VM), CurInstr)))

AssertNotUndefined ==
    /\ Dispatching("AssertNotUndefined")
    /\ Become(Finish(Instruction_AssertNotUndefined(Fetch(VM), CurInstr)))

LoopStart ==
    /\ Dispatching("LoopStart")
    /\ Become(Finish(Instruction_LoopStart(Fetch(VM), CurInstr)))

LoopNext ==
    /\ Dispatching("LoopNext")
    /\ Become(Finish(execute_loop_next(Fetch(VM), CurInstr)))

Halt ==
    /\ Dispatching("Halt")
    /\ Become(Finish(Instruction_Halt(Fetch(VM), CurInstr)))

VirtualDataDocumentLookup ==
    /\ Dispatching("VirtualDataDocumentLookup")
    /\ Become(Finish(execute_virtual_data_document_lookup(Fetch(VM), CurInstr.params_index)))

ComprehensionBegin ==
    /\ Dispatching("ComprehensionBegin")
    /\ Become(Finish(Instruction_ComprehensionBegin(Fetch(VM), CurInstr)))

ComprehensionYield ==
    /\ Dispatching("ComprehensionYield")
    /\ Become(Finish(Instruction_ComprehensionYield(Fetch(VM), CurInstr)))

ComprehensionEnd ==
    /\ Dispatching("ComprehensionEnd")
    /\ Become(Finish(Instruction_ComprehensionEnd(Fetch(VM), CurInstr)))

ObjectCreate ==
    /\ Dispatching("ObjectCreate")
    /\ Become(Finish(Instruction_ObjectCreate(Fetch(VM), CurInstr)))

ArrayCreate ==
    /\ Dispatching("ArrayCreate")
    /\ Become(Finish(Instruction_ArrayCreate(Fetch(VM), CurInstr)))

SetCreate ==
    /\ Dispatching("SetCreate")
    /\ Become(Finish(Instruction_SetCreate(Fetch(VM), CurInstr)))

ChainedIndex ==
    /\ Dispatching("ChainedIndex")
    /\ Become(Finish(Instruction_ChainedIndex(Fetch(VM), CurInstr)))

\* lines 697-702: the budget is spent
InstructionLimitExceeded ==
    /\ status = "running"
    /\ pc < NumInstructions
    /\ executed_instructions >= max_instructions
    /\ Become(limit_exceeded(VM))

\* lines 1456-1460: the dispatcher ran off the end of the instructions
EndOfInstructions ==
    /\ status = "running"
    /\ pc >= NumInstructions
    /\ Become(end_of_instructions(VM))

\* a jump_to made by execute_rule_definitions_common has returned to it
RuleDriver ==
    /\ status = "returned"
    /\ frames # <<>>
    /\ Become(Finish(rule_driver(VM)))

\* the outermost jump_to has returned: the host call returns what it returned
ExecuteReturn ==
    /\ status = "returned"
    /\ frames = <<>>
    /\ Become(host_return(VM))

Next ==
    \/ \E max \in Budgets : set_max_instructions(max)
    \/ \E value \in InputSet : set_input(value)
    \/ execute
    \/ \E index \in EntryIndexes : execute_entry_point_by_index(index)
    \/ \E name \in EntryNames : execute_entry_point_by_name(name)
    \/ Load \/ LoadTrue \/ LoadFalse \/ LoadNull \/ LoadData \/ LoadInput \/ Move
    \/ Add \/ Sub \/ Mul \/ Div \/ Mod
    \/ Eq \/ Ne \/ Lt \/ Le \/ Gt \/ Ge
    \/ FunctionCall \/ Return \/ CallRule \/ RuleInit \/ DestructuringSuccess \/ RuleReturn
    \/ ObjectSet \/ Index \/ IndexLiteral \/ SetAdd
    \/ AssertCondition \/ AssertNotUndefined
    \/ LoopStart \/ LoopNext \/ Halt
    \/ VirtualDataDocumentLookup
    \/ ComprehensionBegin \/ ComprehensionYield \/ ComprehensionEnd
    \/ ObjectCreate \/ ArrayCreate \/ SetCreate \/ ChainedIndex
    \/ InstructionLimitExceeded
    \/ EndOfInstructions
    \/ RuleDriver
    \/ ExecuteReturn

Spec == Init /\ [][Next]_vars

\* A host call is a synchronous call: once execute has been entered, the
\* dispatcher loop and the rule-definition driver go on until it returns.
\* LiveSpec is Spec with weak fairness of the steps of an execution,
\* WF_vars(ExecutionStep), written out with status # "idle" for
\* ENABLED <<ExecutionStep>>_vars: in every state of an execution exactly one
\* of the dispatcher's and the driver's steps can be taken, and it changes the
\* state. The host is under no obligation to call again.
ExecutionStep == status # "idle" /\ Next
LiveSpec ==
    /\ Init /\ [][Next]_vars
    /\ \/ []<>(status = "idle")
       \/ []<><<ExecutionStep>>_vars

(***************************************************************************)
(* Properties.                                                             *)
(***************************************************************************)
\* a host call run to its return
RECURSIVE Run(_)
Run(s) == IF s.status = "idle" THEN s ELSE Run(jump_to(s))

\* the execution under way, made on a VM that has just been created and loaded
FreshRun == Run(Start(LoadedVM(program), entry))
\* the same with the default budget, which no program of the catalogue exhausts
UnboundedRun ==
    Run(Start([LoadedVM(program) EXCEPT !.max_instructions = DefaultMaxInstructions], entry))

\* the outermost jump_to has returned: ret is what the host call returns
Completed == status = "returned" /\ frames = <<>>

\* C1: Determinism. What an execution returns (value or error) is what the same
\* entry point returns on a freshly loaded VM with the same program, data, input
\* and budget, whatever earlier executions have left in this VM.
C1_Determinism == Completed => ret = FreshRun.ret

\* an execution has returned a value on a VM in which the previous execution
\* had died inside a loop and a comprehension with rules cached
C1_Witness == Completed /\ residue /\ ~IsErr(ret) /\ calls # <<>>

\* C2: Reset correctness. The step that starts an execution leaves
\* executed_instructions = 0, the four stacks empty, every rule_cache entry
\* (false, Undefined), evaluated empty, cache_hits = 0 and a window of
\* base_register_count Nulls, and does not touch data and input.
C2_ResetCorrectness ==
    [][(status = "idle" /\ status' = "running") =>
          /\ executed_instructions' = 0
          /\ loop_stack' = <<>> /\ comprehension_stack' = <<>>
          /\ call_rule_stack' = <<>> /\ register_stack' = <<>>
          /\ rule_cache' = [r \in 1..Len(RuleInfos) |-> <<FALSE, Undefined>>]
          /\ evaluated' = new_object
          /\ cache_hits' = 0
          /\ registers' = [r \in 1..base_register_count |-> Null]
          /\ data' = data /\ input' = input]_vars

\* an execution is at its first instruction after one that had left loops,
\* comprehensions, cached rules, cached lookups and an error behind
C2_Witness == status = "running" /\ executed_instructions = 0 /\ residue

\* C3: Instruction budget. An execution that needs more instructions than
\* max_instructions returns InstructionLimitExceeded with that limit.
C3_InstructionBudget ==
    (Completed /\ UnboundedRun.executed_instructions > max_instructions)
        => ret = Err("InstructionLimitExceeded", <<max_instructions>>)

\* C4: Budget exhaustion is fatal. An execution in which
\* InstructionLimitExceeded was raised returns that error.
C4_BudgetExhaustionFatal ==
    Completed =>
        \A j \in 1..Len(raised) :
            ErrName(raised[j]) = "InstructionLimitExceeded" => ret = raised[j]

NonSoftErrors ==
    {"LiteralIndexOutOfBounds", "RegisterNotObject", "RegisterNotArray", "RegisterNotSet",
     "InvalidLoopParams", "InvalidFunctionCallParams", "InvalidComprehensionBeginParams",
     "InvalidVirtualDataDocumentLookupParams", "InvalidRuleTreeEntry", "InvalidRuleIndex",
     "BuiltinArgumentMismatch", "BuiltinNotResolved", "InvalidAddition",
     "InvalidSubtraction", "InvalidMultiplication", "InvalidDivision", "InvalidModulo",
     "ModuloOnFloat"}

\* C5: Programming errors are surfaced. An execution in which an instruction
\* raised a non-soft error returns that error.
C5_ErrorsSurfaced ==
    Completed =>
        \A j \in 1..Len(raised) : ErrName(raised[j]) \in NonSoftErrors => ret = raised[j]

\* a call of a rule whose memoised result is there
CachedCall ==
    /\ Dispatching("CallRule")
    /\ CurInstr.rule_index < Len(rule_cache)
    /\ cache_hit(VM, CurInstr.rule_index)

\* C6: Rule memoisation. Within one execution the definitions of a non-function
\* rule are run at most once; a later call writes the cached value of the first
\* one to dest, dispatches no instruction of the rule and pushes no call frame
\* and no register window; a function rule never gets a rule_cache entry and
\* every FunctionCall runs its definitions.
C6_RuleMemoisation ==
    /\ [](/\ \A r \in 1..Len(RuleInfos) :
                IF is_function_rule(r - 1) THEN rule_cache[r] = <<FALSE, Undefined>>
                ELSE rule_runs[r] <= 1
          /\ \A j \in 1..Len(calls) :
                /\ is_function_rule(calls[j].rule_index) =>
                      calls[j].how = (IF RuleInfos[calls[j].rule_index + 1].definitions = << >>
                                      THEN "empty" ELSE "run")
                /\ calls[j].how = "cached" =>
                      /\ calls[j].executed_after = calls[j].executed_before
                      /\ \E h \in 1..(j - 1) :
                            /\ calls[h].rule_index = calls[j].rule_index
                            /\ calls[h].how # "cached"
                            /\ calls[h].value = calls[j].value)
    /\ [][/\ CachedCall =>
                /\ registers' = [registers EXCEPT ![CurInstr.dest + 1] =
                                    rule_cache[CurInstr.rule_index + 1][2]]
                /\ call_rule_stack' = call_rule_stack
                /\ register_stack' = register_stack
                /\ register_window_pool' = register_window_pool
                /\ rule_runs' = rule_runs
                /\ executed_instructions' = executed_instructions + 1
                /\ pc' = pc + 1
          /\ Dispatching("FunctionCall") =>
                LET f == Prog.function_call_params[CurInstr.params_index + 1].func_rule_index
                IN  (f < Len(RuleInfos) /\ RuleInfos[f + 1].definitions # << >>) =>
                       /\ rule_runs'[f + 1] = rule_runs[f + 1] + 1
                       /\ Len(call_rule_stack') = Len(call_rule_stack) + 1]_vars

\* a rule has been answered from rule_cache and a function has been run twice
C6_Witness ==
    /\ \E j \in 1..Len(calls) : calls[j].how = "cached"
    /\ \E r \in 1..Len(RuleInfos) : is_function_rule(r - 1) /\ rule_runs[r] >= 2

\* the runs of bodies of call c that succeeded with a value in the result register
Successes(c) ==
    {h \in 1..Len(c.outcomes) :
        c.outcomes[h].phase = "body" /\ c.outcomes[h].ok /\ c.outcomes[h].result # Undefined}
\* those whose value differs from the value of an earlier one
Clashes(c) ==
    {h \in Successes(c) :
        \E g \in Successes(c) : g < h /\ c.outcomes[g].result # c.outcomes[h].result}
Checked(c) ==
    c.how = "run" /\ (RuleInfos[c.rule_index + 1].rule_type = "Complete"
                        \/ is_function_rule(c.rule_index))
DefaultOf(rule_index) ==
    LET default_literal_index == RuleInfos[rule_index + 1].default_literal_index
    IN  IF default_literal_index # NoIndex /\ LiteralInRange(default_literal_index)
        THEN Literals[default_literal_index + 1] ELSE Undefined

\* C7: Rule consistency. A call of a Complete or function rule in which two
\* successful bodies left distinct values yields Undefined, not the default,
\* runs nothing after the second of them and caches Undefined; a call whose
\* successful bodies all left one value yields that value.
C7_RuleConsistency ==
    \A j \in 1..Len(calls) :
        Checked(calls[j]) =>
            IF Clashes(calls[j]) # {}
            THEN /\ calls[j].value = Undefined
                 /\ Clashes(calls[j]) = {Len(calls[j].outcomes)}
                 /\ ~is_function_rule(calls[j].rule_index)
                        => calls[j].cache_after = <<TRUE, Undefined>>
            ELSE \A h \in Successes(calls[j]) :
                    calls[j].value = calls[j].outcomes[h].result

\* a rule with a default literal and three bodies had two bodies succeed with
\* distinct values
C7_Witness ==
    \E j \in 1..Len(calls) :
        /\ Checked(calls[j]) /\ Clashes(calls[j]) # {}
        /\ DefaultOf(calls[j].rule_index) # Undefined
        /\ Len(calls[j].outcomes) = 2
        /\ calls[j].value = Undefined

\* no body of call c succeeded
NoSuccess(c) ==
    /\ c.how \in {"run", "empty"}
    /\ \A h \in 1..Len(c.outcomes) : ~(c.outcomes[h].phase = "body" /\ c.outcomes[h].ok)

\* C8: Default rule. A call of a Complete rule in which no body succeeded
\* (there may be none) yields the default literal if one is declared, else
\* Undefined.
C8_DefaultRule ==
    \A j \in 1..Len(calls) :
        (RuleInfos[calls[j].rule_index + 1].rule_type = "Complete" /\ NoSuccess(calls[j]))
            => calls[j].value = DefaultOf(calls[j].rule_index)

\* C9: Partial fallback. A call of a PartialSet (PartialObject) rule in which
\* no body succeeded yields the empty set (object).
C9_PartialFallback ==
    \A j \in 1..Len(calls) :
        NoSuccess(calls[j]) =>
            CASE RuleInfos[calls[j].rule_index + 1].rule_type = "PartialSet" ->
                    calls[j].value = new_set
              [] RuleInfos[calls[j].rule_index + 1].rule_type = "PartialObject" ->
                    calls[j].value = new_object
              [] OTHER -> TRUE

\* Add .. Ge is about to be executed with Undefined in an operand register
UndefinedOperand ==
    /\ \E op \in ArithOps \cup CompareOps : Dispatching(op)
    /\ registers[CurInstr.left + 1] = Undefined \/ registers[CurInstr.right + 1] = Undefined

\* C10: Undefined operands. Add .. Ge with Undefined in the left or the right
\* operand does what the condition handler does with false (outside a loop the
\* body fails with AssertionFailed, in an Every loop the loop ends with false,
\* in another loop the iteration is marked failed), raises no other error and
\* leaves dest as it was.
C10_UndefinedOperands ==
    [][UndefinedOperand =>
          /\ registers'[CurInstr.dest + 1] = registers[CurInstr.dest + 1]
          /\ IF loop_stack = <<>>
             THEN /\ status' = "returned" /\ ret' = Err("AssertionFailed", <<>>)
                  /\ raised' = Append(raised, Err("AssertionFailed", <<>>))
                  /\ registers' = registers
             ELSE /\ status' = "running" /\ raised' = raised
                  /\ IF Last(loop_stack).mode = "Every"
                     THEN /\ loop_stack' = Front(loop_stack)
                          /\ pc' = Last(loop_stack).loop_end
                          /\ registers' = [registers EXCEPT
                                             ![Last(loop_stack).result_reg + 1] = Bool(FALSE)]
                     ELSE /\ loop_stack' = [loop_stack EXCEPT
                                             ![Len(loop_stack)].current_iteration_failed = TRUE]
                          /\ pc' = Last(loop_stack).loop_next_pc
                          /\ registers' = registers]_vars

\* an arithmetic instruction has failed its body on an Undefined right operand
\* next to a left operand that is not a number
C10_Witness ==
    /\ status = "returned" /\ ret = Err("AssertionFailed", <<>>)
    /\ pc < NumInstructions /\ CurInstr.op \in ArithOps
    /\ registers[CurInstr.right + 1] = Undefined
    /\ registers[CurInstr.left + 1].k = "string"

\* Div or Mod is about to be executed on two numbers, the right one being zero
ZeroDivisor ==
    /\ Dispatching("Div") \/ Dispatching("Mod")
    /\ IsNumber(registers[CurInstr.left + 1])
    /\ registers[CurInstr.right + 1] = Num(0)

\* C11: division and modulo by zero. Div and Mod with two number operands and
\* a right operand equal to zero write Undefined to dest and continue with the
\* next instruction; no error is raised and the condition handler is not
\* invoked (no body fails, no loop frame is popped or marked failed).
C11_DivisionByZero ==
    [][ZeroDivisor =>
          /\ registers' = [registers EXCEPT ![CurInstr.dest + 1] = Undefined]
          /\ pc' = pc + 1
          /\ status' = "running"
          /\ raised' = raised
          /\ loop_stack' = loop_stack
          /\ frames' = frames]_vars

\* inside a loop, Mod has just written Undefined for an element modulo zero
C11_Witness ==
    /\ status = "running" /\ pc > 0 /\ pc <= NumInstructions
    /\ Prog.instructions[pc].op = "Mod"
    /\ loop_stack # <<>> /\ ~Last(loop_stack).current_iteration_failed
    /\ IsNumber(registers[Prog.instructions[pc].left + 1])
    /\ registers[Prog.instructions[pc].right + 1] = Num(0)
    /\ registers[Prog.instructions[pc].dest + 1] = Undefined

\* the instruction continues with the next one: nothing is raised, no body
\* fails, no loop frame is popped or marked
Continues ==
    /\ pc' = pc + 1
    /\ status' = "running"
    /\ raised' = raised
    /\ loop_stack' = loop_stack
    /\ frames' = frames

\* the registers an ObjectCreate reads that the claim names
UndefinedField(params) ==
    \/ \E j \in 1..Len(params.literal_key_field_pairs) :
          registers[params.literal_key_field_pairs[j][2] + 1] = Undefined
    \/ \E j \in 1..Len(params.field_pairs) :
          \/ registers[params.field_pairs[j][1] + 1] = Undefined
          \/ registers[params.field_pairs[j][2] + 1] = Undefined

\* o is the template with every literal-key pair and every register-key pair
\* written into it, a later write of a key winning over an earlier one
IsBuilt(o, params) ==
    LET template == Literals[params.template_literal_idx + 1]
        lits == params.literal_key_field_pairs
        flds == params.field_pairs
        LitKey(j) == Literals[lits[j][1] + 1]
        FldKey(j) == registers[flds[j][1] + 1]
        FldKeys == {FldKey(j) : j \in 1..Len(flds)}
        LitKeys == {LitKey(j) : j \in 1..Len(lits)}
    IN  /\ IsObject(o)
        /\ Cardinality(o.v) = Cardinality(ObjKeys(o))
        /\ ObjKeys(o) = ObjKeys(template) \cup LitKeys \cup FldKeys
        /\ \A j \in 1..Len(flds) :
              (\A h \in (j + 1)..Len(flds) : FldKey(h) # FldKey(j))
                  => ObjGet(o, FldKey(j)) = registers[flds[j][2] + 1]
        /\ \A j \in 1..Len(lits) :
              (LitKey(j) \notin FldKeys /\ \A h \in (j + 1)..Len(lits) : LitKey(h) # LitKey(j))
                  => ObjGet(o, LitKey(j)) = registers[lits[j][2] + 1]
        /\ \A k \in ObjKeys(template) \ (LitKeys \cup FldKeys) :
              ObjGet(o, k) = ObjGet(template, k)

\* C12: Undefined propagation in container creation. ArrayCreate and SetCreate
\* write Undefined to dest iff an element register holds Undefined, and the
\* array (in register order) or set of the element registers otherwise;
\* ObjectCreate writes Undefined to dest iff a value register of a literal-key
\* pair or a key or value register of a register-key pair holds Undefined, and
\* the object built from the template object and the pairs otherwise. No other
\* register changes and the condition handler is not invoked.
C12_ContainerCreation ==
    [][/\ Dispatching("ArrayCreate") =>
             LET params == Prog.array_create_params[CurInstr.params_index + 1]
                 regs == params.element_registers
             IN  /\ registers' = [registers EXCEPT ![params.dest + 1] =
                        IF \E j \in 1..Len(regs) : registers[regs[j] + 1] = Undefined
                        THEN Undefined
                        ELSE Arr([j \in 1..Len(regs) |-> registers[regs[j] + 1]])]
                 /\ Continues
       /\ Dispatching("SetCreate") =>
             LET params == Prog.set_create_params[CurInstr.params_index + 1]
                 regs == params.element_registers
             IN  /\ registers' = [registers EXCEPT ![params.dest + 1] =
                        IF \E j \in 1..Len(regs) : registers[regs[j] + 1] = Undefined
                        THEN Undefined
                        ELSE SetOf({registers[regs[j] + 1] : j \in 1..Len(regs)})]
                 /\ Continues
       /\ (/\ Dispatching("ObjectCreate")
           /\ IsObject(Literals[Prog.object_create_params[CurInstr.params_index + 1]
                                   .template_literal_idx + 1])) =>
             LET params == Prog.object_create_params[CurInstr.params_index + 1]
             IN  /\ registers'[params.dest + 1] = Undefined <=> UndefinedField(params)
                 /\ ~UndefinedField(params) => IsBuilt(registers'[params.dest + 1], params)
                 /\ \A r \in 1..Len(registers) :
                       r # params.dest + 1 => registers'[r] = registers[r]
                 /\ Len(registers') = Len(registers)
                 /\ Continues]_vars

\* ObjectCreate has just written Undefined because the key register of a
\* register-key pair held Undefined while every value register was defined
C12_Witness ==
    /\ status = "running" /\ pc > 0 /\ pc <= NumInstructions
    /\ Prog.instructions[pc].op = "ObjectCreate"
    /\ LET params == Prog.object_create_params[Prog.instructions[pc].params_index + 1]
       IN  /\ registers[params.dest + 1] = Undefined
           /\ \E j \in 1..Len(params.field_pairs) :
                 registers[params.field_pairs[j][1] + 1] = Undefined
           /\ \A j \in 1..Len(params.field_pairs) :
                 registers[params.field_pairs[j][2] + 1] # Undefined
           /\ \A j \in 1..Len(params.literal_key_field_pairs) :
                 registers[params.literal_key_field_pairs[j][2] + 1] # Undefined

\* LoopStart is about to be executed on an empty or non-iterable collection
Vacuous ==
    /\ Dispatching("LoopStart")
    /\ LET c == registers[Prog.loop_params[CurInstr.params_index + 1].collection + 1]
       IN  \/ c.k \in {"undefined", "null", "bool", "number", "string"}
           \/ c.k = "array" /\ c.v = <<>>
           \/ c.k \in {"object", "set"} /\ c.v = {}

Elements(c) ==
    CASE IsArray(c) -> {c.v[j] : j \in 1..Len(c.v)}
      [] IsSet(c) -> c.v
      [] IsObject(c) -> {q[2] : q \in c.v}
      [] OTHER -> {}

\* the predicate of the loop bodies of ProgSemantics: v >= 2
AtLeastTwo(x) == x = Num(2) \/ ValueLess(Num(2), x)

\* loop j of ProgSemantics (one of the some/every loops) has just ended
LoopEnded(j) ==
    /\ Prog.entry_points[1][1] = "semantics"
    /\ status = "running"
    /\ pc = Prog.loop_params[j].loop_end
    /\ Len(loop_stack) = 1

\* C14: loop semantics. When a some/every loop over an array, a set or an
\* object, with equal or with different key and value registers, whose body
\* fails exactly on the elements below 2, has ended, its result register
\* holds true iff some element is at least 2 (Any), and true iff every
\* element is at least 2 (Every).
C14_LoopSemantics ==
    \A j \in 2..Len(Prog.loop_params) :
        LoopEnded(j) =>
            LET params == Prog.loop_params[j]
                C == Elements(registers[params.collection + 1])
            IN  registers[params.result_reg + 1] =
                    Bool(IF params.mode = "Any" THEN \E x \in C : AtLeastTwo(x)
                         ELSE \A x \in C : AtLeastTwo(x))

\* the execution state the claim lists is as the step found it
ExecutionStateUnchanged ==
    UNCHANGED <<registers, pc, rule_cache, evaluated, cache_hits, loop_stack, call_rule_stack,
                register_stack, comprehension_stack, register_window_pool,
                executed_instructions, data, input>>

\* the execution state after reset_execution_state, at address target
StartedAt(target) ==
    /\ status' = "running" /\ pc' = target /\ entry' = target
    /\ executed_instructions' = 0
    /\ loop_stack' = <<>> /\ comprehension_stack' = <<>>
    /\ call_rule_stack' = <<>> /\ register_stack' = <<>>
    /\ rule_cache' = [r \in 1..Len(RuleInfos) |-> <<FALSE, Undefined>>]
    /\ evaluated' = new_object
    /\ registers' = [r \in 1..base_register_count |-> Null]

\* C15: entry-point selection errors. execute_entry_point_by_index(i) with
\* i >= the number of entry points returns InvalidEntryPointIndex, and
\* execute_entry_point_by_name(s) with s not an entry-point name returns
\* EntryPointNotFound carrying s and all entry-point names; in both cases the
\* VM stays idle (nothing is dispatched) and registers, rule_cache, evaluated,
\* the stacks and executed_instructions are as before. A valid index or
\* name resets the VM and starts the dispatcher at that entry point's address.
C15_EntryPointSelection ==
    [][status = "idle" =>
       /\ \A index \in EntryIndexes :
             execute_entry_point_by_index(index) =>
                 IF index >= Len(Prog.entry_points)
                 THEN /\ ret' = Err("InvalidEntryPointIndex",
                                    <<index, Len(Prog.entry_points) - 1>>)
                      /\ status' = "idle"
                      /\ ExecutionStateUnchanged
                 ELSE StartedAt(Prog.entry_points[index + 1][2])
       /\ \A name \in EntryNames :
             execute_entry_point_by_name(name) =>
                 IF \A i \in 1..Len(Prog.entry_points) : Prog.entry_points[i][1] # name
                 THEN /\ ret' = Err("EntryPointNotFound",
                                    <<name, [i \in 1..Len(Prog.entry_points) |->
                                                Prog.entry_points[i][1]]>>)
                      /\ status' = "idle"
                      /\ ExecutionStateUnchanged
                 ELSE \E i \in 1..Len(Prog.entry_points) :
                         /\ Prog.entry_points[i][1] = name
                         /\ StartedAt(Prog.entry_points[i][2])]_vars

\* an unknown entry-point name has been refused by a VM that still holds what
\* its previous execution left: the instruction count and a cached rule result
C15_Witness ==
    /\ status = "idle"
    /\ IsErr(ret) /\ ErrName(ret) = "EntryPointNotFound"
    /\ executed_instructions > 0
    /\ \E r \in 1..Len(rule_cache) : rule_cache[r][1]

\* C16: execute() runs the main entry point. After the reset the dispatcher
\* started by execute() is at program.main_entry_point, for every loaded
\* program, also when that address is not 0.
C16_ExecuteRunsMain ==
    [][execute => (status' = "running" /\ pc' = Prog.main_entry_point)]_vars

\* the path of a lookup whose components are all literals
LiteralPath(params) ==
    [j \in 1..Len(params.path_components) |-> Literals[params.path_components[j].idx + 1]]

\* the rule-tree node a lookup's path ends on
PathNode(params) == IndexPath(ValueIndex(Prog.rule_tree, Str("data")), LiteralPath(params))

\* the dispatcher, run with the default budget, is past a top-level lookup
\* whose path ended on an interior node with rule leaves right below it
SubobjectLookedUp ==
    /\ status = "running" /\ frames = <<>> /\ executed_instructions > 0
    /\ max_instructions = DefaultMaxInstructions
    /\ pc > 0 /\ pc <= NumInstructions
    /\ Prog.instructions[pc].op = "VirtualDataDocumentLookup"
    /\ \A j \in 1..Len(Prog.virtual_data_document_lookup_params[
                          Prog.instructions[pc].params_index + 1].path_components) :
          Prog.virtual_data_document_lookup_params[
              Prog.instructions[pc].params_index + 1].path_components[j].lit
    /\ IsObject(PathNode(Prog.virtual_data_document_lookup_params[
                            Prog.instructions[pc].params_index + 1]))
    /\ \A q \in PathNode(Prog.virtual_data_document_lookup_params[
                            Prog.instructions[pc].params_index + 1]).v : IsNumber(q[2])

\* the data subobject at the path overlaid with the defined results of the
\* rules right below the node
Overlay(params) ==
    LET node == PathNode(params)
        at == IndexPath(data, LiteralPath(params))
        base == IF at = Undefined THEN new_object ELSE at
        defined == {q \in node.v : rule_cache[q[2].v[1] + 1][2] # Undefined}
    IN  Obj({q \in base.v : q[1] \notin {d[1] : d \in defined}}
            \cup {<<d[1], rule_cache[d[2].v[1] + 1][2]>> : d \in defined})

\* C17: virtual lookup of a subobject. When the path ends on an interior node
\* of the rule tree the result is the data subobject at that path (the empty
\* object when data has none) overlaid with one entry per rule leaf under
\* the node whose result is defined; a rule whose result is Undefined
\* contributes no key. With the rule tree {data: {p: {a: rule 0, b: rule 1}}},
\* rule 0 = 1, rule 1 = Undefined and data {p: {c: 3}}, data.p is {a: 1, c: 3}.
C17_SubobjectLookup ==
    SubobjectLookedUp =>
        LET params == Prog.virtual_data_document_lookup_params[
                          Prog.instructions[pc].params_index + 1]
        IN  /\ registers[params.dest + 1] = Overlay(params)
            /\ Prog.entry_points[1][1] = "subobject" =>
                  registers[params.dest + 1] =
                      Obj({<<Str("a"), Num(1)>>, <<Str("c"), Num(3)>>})

\* key is not in the container c, or c is a value that cannot be indexed
Absent(c, key) ==
    /\ ~(IsObject(c) /\ \E p \in c.v : p[1] = key)
    /\ ~(IsArray(c) /\ IsU64(key) /\ key.v[1] < Len(c.v))
    /\ ~(IsSet(c) /\ key \in c.v)

\* walking the path from current, a component is Absent before any bad
\* literal index is met
RECURSIVE MissingAlong(_, _)
MissingAlong(current, path_components) ==
    /\ path_components # <<>>
    /\ LET component == path_components[1]
       IN  /\ component.lit => LiteralInRange(component.idx)
           /\ LET key == IF component.lit THEN Literals[component.idx + 1]
                         ELSE registers[component.idx + 1]
              IN  \/ Absent(current, key)
                  \/ MissingAlong(ValueIndex(current, key), Tail(path_components))

\* Index, IndexLiteral or ChainedIndex is about to be executed on a missing
\* path; the value is the register it writes, NoIndex otherwise
MissingPathDest ==
    CASE Dispatching("Index") /\ Absent(registers[CurInstr.container + 1],
                                        registers[CurInstr.key + 1]) -> CurInstr.dest
      [] Dispatching("IndexLiteral") /\ LiteralInRange(CurInstr.literal_idx)
            /\ Absent(registers[CurInstr.container + 1],
                      Literals[CurInstr.literal_idx + 1]) -> CurInstr.dest
      [] Dispatching("ChainedIndex") /\ CurInstr.params_index < Len(Prog.chained_index_params)
            /\ LET params == Prog.chained_index_params[CurInstr.params_index + 1]
               IN  MissingAlong(registers[params.root + 1], params.path_components)
            -> Prog.chained_index_params[CurInstr.params_index + 1].dest
      [] OTHER -> NoIndex

\* the entry point "missing" (result := input.xs.x, returned to the host) was
\* started with an input without xs and the default budget
EntryRuleMissing ==
    /\ Prog.entry_points[1][1] = "missing" /\ entry = Prog.entry_points[1][2]
    /\ Absent(input, Str("xs"))
    /\ max_instructions = DefaultMaxInstructions

\* C18: missing paths. Index, IndexLiteral and ChainedIndex on an absent key or
\* on a value that cannot be indexed write Undefined to dest and continue with
\* the next instruction: nothing is raised and the condition handler is not
\* invoked (ChainedIndex stops at the first Undefined, whatever follows in its
\* path); and the execution of an entry point whose rule is such a reference
\* returns Undefined to the host, not an error.
C18_MissingPath ==
    [][/\ MissingPathDest # NoIndex =>
             /\ registers' = [registers EXCEPT ![MissingPathDest + 1] = Undefined]
             /\ Continues
       /\ (EntryRuleMissing /\ ~Completed /\ Completed') => ret' = Undefined]_vars

\* the execution of the entry point "missing" has returned Undefined to the
\* host after a ChainedIndex on a missing path, in a rule body that then
\* failed its assertion
C18_Witness ==
    /\ EntryRuleMissing /\ Completed /\ ret = Undefined
    /\ Len(calls) = 2 /\ raised = << Err("AssertionFailed", <<>>) >>

\* a rule call of a partial rule is running
InPartialRule ==
    /\ frames # <<>> /\ call_rule_stack # <<>>
    /\ Last(call_rule_stack).rule_type \in {"PartialSet", "PartialObject"}

\* what the rules of the entry point "partial" mean for the input
ItemsOf(c) == IF IsArray(c) THEN {c.v[j] : j \in 1..Len(c.v)} ELSE {}
Present(key) == IF Absent(input, key) THEN {} ELSE {ValueIndex(input, key)}
PartialMeaning(name) ==
    CASE name = "s" ->
            SetOf(ItemsOf(ValueIndex(input, Str("items")))
                  \cup (IF ValueIndex(input, Str("role")) = Str("admin") THEN {Num(7)} ELSE {})
                  \cup {Num(9), Num(2)})
      [] name = "t" -> SetOf(Present(Str("x")) \cup Present(Str("role")))
      [] OTHER -> Obj({<<Str("x"), Num(7)>>}
                      \cup {<<Str("role"), v>> : v \in Present(Str("role"))})

\* C19: partial rule accumulation. In a PartialSet / PartialObject rule,
\* RuleInit writes an empty container to the result register in body 0 of
\* definition 0 and changes no register in any other body; the result register
\* is the same before and after the register reset that starts the next body;
\* and a partial rule called at the default budget yields everything its
\* bodies have added, each value once: for the rules of the entry point
\* "partial", the values the rules mean for the input, whichever bodies fail.
C19_PartialAccumulation ==
    [][/\ (Dispatching("RuleInit") /\ InPartialRule) =>
             LET ctx == Last(call_rule_stack)
                 empty == IF ctx.rule_type = "PartialSet" THEN new_set ELSE new_object
             IN  IF ctx.current_definition_index = 0 /\ ctx.current_body_index = 0
                 THEN registers' = [registers EXCEPT ![CurInstr.result_reg + 1] = empty]
                 ELSE registers' = registers
       /\ (/\ InPartialRule /\ Len(frames') = Len(frames)
           /\ Last(frames').rule_index = Last(frames).rule_index
           /\ Last(frames').executed_before = Last(frames).executed_before
           /\ <<Last(frames').def_idx, Last(frames').body_idx>>
                 # <<Last(frames).def_idx, Last(frames).body_idx>>) =>
             LET result_reg == RuleInfos[Last(frames).rule_index + 1].result_reg
             IN  registers'[result_reg + 1] = registers[result_reg + 1]
       /\ (/\ Len(calls') = Len(calls) + 1 /\ Prog.entry_points[1][1] = "partial"
           /\ max_instructions = DefaultMaxInstructions) =>
             Last(calls').value = PartialMeaning(RuleInfos[Last(calls').rule_index + 1].name)
      ]_vars

\* the entry point "partial" has completed for the admin with items
\* [2, 2, 3]: the four bodies of s have run and s is {2, 3, 7, 9}
C19_Witness ==
    /\ Prog.entry_points[1][1] = "partial" /\ max_instructions = DefaultMaxInstructions
    /\ Completed /\ executed_instructions > 40
    /\ ValueIndex(input, Str("items")) = Arr(<<Num(2), Num(2), Num(3)>>)
    /\ Len(calls) = 3 /\ calls[1].rule_index = 0 /\ calls[1].how = "run"
    /\ Len(calls[1].outcomes) = 4
    /\ calls[1].value = SetOf({Num(2), Num(3), Num(7), Num(9)})

AssertionFailed == Err("AssertionFailed", <<>>)

\* an AssertCondition or AssertNotUndefined whose condition fails is about to
\* be executed in a rule body or destructuring block, outside every loop
FailedCondition ==
    /\ frames # <<>> /\ loop_stack = <<>>
    /\ \/ /\ Dispatching("AssertCondition")
          /\ registers[CurInstr.condition + 1] \in {Bool(FALSE), Undefined}
       \/ /\ Dispatching("AssertNotUndefined")
          /\ registers[CurInstr.register + 1] = Undefined

\* the jump_to the driver made for a body or destructuring block has returned
\* AssertionFailed
BlockFailed == status = "returned" /\ frames # <<>> /\ ret = AssertionFailed

\* the bodies <<definition, body>> of the rule that are still to be run after
\* the failure of the body (or destructuring block) at def_idx, body_idx
StillToRun(rule_info, phase, def_idx, body_idx) ==
    {db \in (0..Len(rule_info.definitions)) \X (0..NumInstructions) :
        /\ db[1] < Len(rule_info.definitions)
        /\ db[2] < Len(rule_info.definitions[db[1] + 1])
        /\ \/ db[1] > def_idx
           \/ db[1] = def_idx /\ db[2] > body_idx /\ phase = "body"}
FirstOf(dbs) ==
    CHOOSE db \in dbs : \A o \in dbs : db[1] < o[1] \/ (db[1] = o[1] /\ db[2] <= o[2])

ConditionFailsInLoop ==
    /\ loop_stack # <<>>
    /\ \/ /\ Dispatching("AssertCondition")
          /\ registers[CurInstr.condition + 1] \in {Bool(FALSE), Undefined}
       \/ /\ Dispatching("AssertNotUndefined")
          /\ registers[CurInstr.register + 1] = Undefined
       \/ UndefinedOperand

\* C21: condition failure inside a loop. It acts on the innermost loop frame
\* only. Mode Any or ForEach: the frame stays, marked current_iteration_failed,
\* and the next instruction is the loop's LoopNext at loop_next_pc =
\* loop_end - 1; no register changes. Mode Every: the frame is popped, false
\* is written to its result register and the next instruction is the one at
\* loop_end. The outer frames are as they were and nothing is raised.
C21_ConditionInLoop ==
    [][ConditionFailsInLoop =>
          LET n == Len(loop_stack)
              loop_ctx == loop_stack[n]
          IN  /\ status' = "running" /\ raised' = raised /\ frames' = frames
              /\ SubSeq(loop_stack', 1, n - 1) = SubSeq(loop_stack, 1, n - 1)
              /\ IF loop_ctx.mode = "Every"
                 THEN /\ Len(loop_stack') = n - 1
                      /\ registers' = [registers EXCEPT ![loop_ctx.result_reg + 1] = Bool(FALSE)]
                      /\ pc' = loop_ctx.loop_end
                 ELSE /\ loop_stack' = [loop_stack EXCEPT ![n].current_iteration_failed = TRUE]
                      /\ registers' = registers
                      /\ pc' = loop_ctx.loop_next_pc /\ pc' = loop_ctx.loop_end - 1
                      /\ Prog.instructions[pc' + 1].op = "LoopNext"]_vars

\* an Every loop nested in another loop has just been ended by a failed
\* condition: one frame is left, the result is false, pc is past its LoopNext
C21_Witness ==
    /\ status = "running" /\ Len(loop_stack) = 1 /\ pc > 0 /\ pc < NumInstructions
    /\ Prog.instructions[pc].op = "LoopNext" /\ Prog.instructions[pc].loop_end = pc
    /\ \E j \in 1..Len(Prog.loop_params) :
          /\ Prog.loop_params[j].mode = "Every" /\ Prog.loop_params[j].loop_end = pc
          /\ registers[Prog.loop_params[j].result_reg + 1] = Bool(FALSE)
          /\ IsArray(registers[Prog.loop_params[j].collection + 1])
          /\ registers[Prog.loop_params[j].value_reg + 1]
                = registers[Prog.loop_params[j].collection + 1].v[1]
          /\ Len(registers[Prog.loop_params[j].collection + 1].v) = 2

\* the number of elements of the collection a loop frame iterates over
SizeOf(iteration_state) ==
    IF iteration_state.kind = "Array" THEN Len(iteration_state.coll)
    ELSE Cardinality(iteration_state.coll)

\* the frame is popped by the step
LoopExits == Len(loop_stack') = Len(loop_stack) - 1

\* what a LoopNext step does with the innermost loop frame
LoopNextPolicy ==
    (Dispatching("LoopNext") /\ loop_stack # <<>>) =>
        LET n == Len(loop_stack)
            loop_ctx == loop_stack[n]
            ok == ~loop_ctx.current_iteration_failed
            total == loop_ctx.total_iterations + 1
            successes == loop_ctx.success_count + (IF ok THEN 1 ELSE 0)
        IN  /\ status' = "running" /\ raised' = raised
            /\ (loop_ctx.mode = "Any" /\ ok) => LoopExits
            /\ (loop_ctx.mode = "ForEach" /\ total < SizeOf(loop_ctx.iteration_state))
                  => ~LoopExits
            /\ IF LoopExits
               THEN /\ loop_stack' = SubSeq(loop_stack, 1, n - 1)
                    /\ pc' = loop_ctx.loop_end
                    /\ registers'[loop_ctx.result_reg + 1] =
                          Bool(IF loop_ctx.mode = "Every" THEN successes = total
                               ELSE successes > 0)
               ELSE /\ Len(loop_stack') = n
                    /\ pc' = loop_ctx.body_start
                    /\ loop_stack'[n].current_iteration_failed = FALSE
                    /\ loop_stack'[n].total_iterations = total
                    /\ loop_stack'[n].success_count = successes

\* C22: LoopNext policy. With a loop frame on the stack, LoopNext counts the
\* iteration (successful unless marked failed). An Any loop exits at its first
\* successful iteration with true; a ForEach loop does not exit while elements
\* of its collection have not been visited; whenever the loop exits, the
\* result register is successes > 0 (Any, ForEach) or successes == total
\* (Every) and the next instruction is the one at the frame's loop_end;
\* otherwise the next instruction is the one at body_start and the frame's
\* current_iteration_failed is false.
C22_LoopNextPolicy == [][LoopNextPolicy]_vars

\* the elements of a collection in the order a loop is to visit them
ElementsInOrder(c) ==
    IF IsArray(c) THEN c.v
    ELSE IF IsSet(c) THEN SortedItems(c.v)
    ELSE [j \in 1..Cardinality(c.v) |-> ObjGet(c, SortedItems(ObjKeys(c))[j])]

\* ProgIterate: the instruction after each inner block, and the register that
\* holds the array of the values the block's loop body has yielded
VisitedAt == [x \in {10, 17, 24, 31} |->
                 CASE x = 10 -> 10 [] x = 17 -> 11 [] x = 24 -> 12 [] x = 31 -> 13]
AfterBlock ==
    /\ program = ProgIterate /\ status = "running" /\ Len(loop_stack) = 1
    /\ pc \in DOMAIN VisitedAt

\* C23: iteration order and coverage. A ForEach loop (never exited early) has
\* run its body exactly once for each element of the collection as it was at
\* LoopStart, in index order for an array and in ascending order of the
\* items/keys for a set/object: with distinct key and value registers (block
\* 1), with equal ones (block 2), when the body overwrites the collection
\* register (block 3) and when it overwrites the key and value registers
\* (block 4).
C23_IterationCoverage ==
    AfterBlock => registers[VisitedAt[pc] + 1] = Arr(ElementsInOrder(registers[4 + 1]))

\* the operands of the binary instruction about to be executed
LeftOperand == registers[CurInstr.left + 1]
RightOperand == registers[CurInstr.right + 1]
\* Mod is about to be executed on two numbers, one of them not an integer
ModOnNonInteger ==
    /\ Dispatching("Mod") /\ IsNumber(LeftOperand) /\ IsNumber(RightOperand)
    /\ ~is_integer(LeftOperand) \/ ~is_integer(RightOperand)
\* Mod is about to be executed on an operand that is neither a number nor
\* Undefined (the other operand is not Undefined either)
ModOnNonNumber ==
    /\ Dispatching("Mod") /\ LeftOperand # Undefined /\ RightOperand # Undefined
    /\ ~IsNumber(LeftOperand) \/ ~IsNumber(RightOperand)
\* the step ends the execution with error e
Raises(e) ==
    /\ raised' = Append(raised, e) /\ ret' = e /\ status' = "returned"
    /\ registers' = registers

\* C24 as stated: Mod with two number operands of which at least one is not
\* an integer raises ModuloOnFloat, for every right operand including zero;
\* Mod with an operand that is neither a number nor Undefined raises
\* InvalidModulo.
C24_ModOnNonIntegers ==
    [][/\ ModOnNonInteger => Raises(Err("ModuloOnFloat", <<>>))
       /\ ModOnNonNumber => Raises(Err("InvalidModulo", <<LeftOperand, RightOperand>>))]_vars

\* C24, amended: Mod with two number operands of which at least one is not an
\* integer raises ModuloOnFloat when the right operand is not zero; with a
\* right operand equal to zero it raises nothing and writes Undefined to dest
\* (the zero test precedes the integer test). Mod with an operand that is
\* neither a number nor Undefined raises InvalidModulo.
C24_ModOnNonIntegersNonZero ==
    [][/\ ModOnNonInteger =>
             IF RightOperand = Num(0)
             THEN /\ registers' = [registers EXCEPT ![CurInstr.dest + 1] = Undefined]
                  /\ Continues
             ELSE Raises(Err("ModuloOnFloat", <<>>))
       /\ ModOnNonNumber => Raises(Err("InvalidModulo", <<LeftOperand, RightOperand>>))]_vars

\* 0.5 % 2 has ended the execution with ModuloOnFloat
C24_Witness ==
    /\ program = ProgModulo /\ status = "returned" /\ pc = 6
    /\ registers[2] = Rat(1, 2) /\ registers[3] = Num(2)
    /\ ret = Err("ModuloOnFloat", <<>>) /\ raised = <<ret>>

\* the object after the insertion of every <<key, value>> of kvs, in order
RECURSIVE InsertAll(_, _)
InsertAll(obj, kvs) ==
    IF kvs = <<>> THEN obj
    ELSE InsertAll(Obj({q \in obj.v : q[1] # kvs[1][1]} \cup {kvs[1]}), Tail(kvs))
\* the literal-key pairs and the register-key pairs as <<key, value>>
LiteralUpdates(params) ==
    [j \in 1..Len(params.literal_key_field_pairs) |->
        << Literals[params.literal_key_field_pairs[j][1] + 1],
           registers[params.literal_key_field_pairs[j][2] + 1] >>]
FieldUpdates(params) ==
    [j \in 1..Len(params.field_pairs) |->
        << registers[params.field_pairs[j][1] + 1], registers[params.field_pairs[j][2] + 1] >>]
\* the template with every literal-key pair, then every register-key pair,
\* inserted in order
ReferenceOverlay(params) ==
    InsertAll(Literals[params.template_literal_idx + 1],
              LiteralUpdates(params) \o FieldUpdates(params))
\* ObjectCreate is about to be executed on well-formed parameters: every
\* literal exists, the literal-key pairs are sorted by key, no input register
\* holds Undefined
CreatesObject(params) ==
    /\ Dispatching("ObjectCreate")
    /\ CurInstr.params_index < Len(Prog.object_create_params)
    /\ params = Prog.object_create_params[CurInstr.params_index + 1]
    /\ LiteralInRange(params.template_literal_idx)
    /\ \A j \in 1..Len(params.literal_key_field_pairs) :
          LiteralInRange(params.literal_key_field_pairs[j][1])
    /\ \A j, h \in 1..Len(params.literal_key_field_pairs) :
          j < h => ~ValueLess(LiteralUpdates(params)[h][1], LiteralUpdates(params)[j][1])
    /\ ~UndefinedField(params)

\* C25: ObjectCreate equals a reference overlay. When no input register holds
\* Undefined, dest receives the template object with every literal-key pair
\* (sorted by key) inserted, then every register-key pair inserted in order,
\* a later insertion of a key replacing an earlier one and the template's
\* value; no other register changes and the next instruction follows. A
\* template literal that is not an object raises ObjectCreateInvalidTemplate.
C25_ObjectCreateOverlay ==
    [][\A params \in {Prog.object_create_params[j] : j \in 1..Len(Prog.object_create_params)} :
          CreatesObject(params) =>
             IF IsObject(Literals[params.template_literal_idx + 1])
             THEN /\ registers' = [registers EXCEPT ![params.dest + 1] = ReferenceOverlay(params)]
                  /\ Continues
             ELSE Raises(Err("ObjectCreateInvalidTemplate", <<>>))]_vars

\* {"b": null, "c": 7} has received a: "a", b: "guest", b: "a", p: "guest":
\* no key of the updates was visited by the walk over the template
C25_Witness ==
    /\ program = ProgOverlay /\ status = "running" /\ pc = 5
    /\ registers[3] = Str("a") /\ registers[4] = Str("guest")
    /\ registers[6] = Obj({<<Str("a"), Str("a")>>, <<Str("b"), Str("a")>>,
                           <<Str("c"), Num(7)>>, <<Str("p"), Str("guest")>>})

\* a virtual lookup has just been completed at top level: its parameters
JustLookedUp ==
    /\ status = "running" /\ frames = <<>> /\ pc > 0 /\ pc <= NumInstructions
    /\ Prog.instructions[pc].op = "VirtualDataDocumentLookup"
    /\ Prog.instructions[pc].params_index < Len(Prog.virtual_data_document_lookup_params)
LookedUp == Prog.virtual_data_document_lookup_params[Prog.instructions[pc].params_index + 1]
\* the walk of the rule tree along the path of that lookup
WalkOf(params) == Walk(VM, params.path_components, 0, ValueIndex(Prog.rule_tree, Str("data")))
\* the values of the path components from position from + 1 on
PathFrom(params, from) ==
    ResolvePath(VM, SubSeq(params.path_components, from + 1, Len(params.path_components))).path
\* the walk of a completed lookup ended on a rule leaf
EndedOnLeaf == JustLookedUp /\ WalkOf(LookedUp).err = None /\ IsU64(WalkOf(LookedUp).node)

\* C26: virtual lookup ending on a rule leaf. When the walk of the rule tree
\* reaches a leaf Number(rule_idx), that rule is called as CallRule calls it
\* (its definitions are run at the first call of the execution, a later call
\* is answered from rule_cache with the same value), and dest holds the
\* rule's result indexed successively by the path components the walk has not
\* consumed (the result itself if none is left; Undefined on a miss; no error).
C26_LookupOnLeaf ==
    EndedOnLeaf =>
        LET w == WalkOf(LookedUp)
            n == Len(calls)
            earlier == {h \in 1..(n - 1) : calls[h].rule_index = w.node.v[1]}
        IN  /\ n > 0
            /\ calls[n].rule_index = w.node.v[1]
            /\ IF earlier = {}
               THEN calls[n].how = (IF RuleInfos[w.node.v[1] + 1].definitions = << >>
                                    THEN "empty" ELSE "run")
               ELSE calls[n].how = "cached" /\ \A h \in earlier : calls[h].value = calls[n].value
            /\ registers[LookedUp.dest + 1] = IndexPath(calls[n].value, PathFrom(LookedUp, w.consumed))

\* data.p.r.a.b has been answered from rule_cache: of the result
\* {"a": {"b": 1}} of rule r, dest holds 1 (data holds 5 at this path)
C26_Witness ==
    /\ EndedOnLeaf /\ program = ProgLeaf /\ pc = 3
    /\ Len(calls) = 2 /\ calls[2].how = "cached" /\ raised = <<>>
    /\ calls[2].value = Obj({<<Str("a"), Obj({<<Str("b"), Num(1)>>})>>})
    /\ registers[3] = Num(1)

\* a virtual lookup is about to be executed: its parameters, the values of
\* its path and the rule-tree nodes along the path, from the "data" child on
Looking ==
    /\ Dispatching("VirtualDataDocumentLookup")
    /\ CurInstr.params_index < Len(Prog.virtual_data_document_lookup_params)
    /\ ResolvePath(VM, Prog.virtual_data_document_lookup_params[CurInstr.params_index + 1]
                          .path_components).err = None
LookingFor == Prog.virtual_data_document_lookup_params[CurInstr.params_index + 1]
LookupPath == ResolvePath(VM, LookingFor.path_components).path
NodeAt(j) == IndexPath(ValueIndex(Prog.rule_tree, Str("data")), SubSeq(LookupPath, 1, j))
\* the number of components the walk consumes: it stops at the first node
\* that is Undefined or a number
Consumed ==
    IF \E j \in 1..Len(LookupPath) : NodeAt(j) = Undefined \/ IsNumber(NodeAt(j))
    THEN CHOOSE j \in 1..Len(LookupPath) :
            /\ NodeAt(j) = Undefined \/ IsNumber(NodeAt(j))
            /\ \A h \in 1..(j - 1) : NodeAt(h) # Undefined /\ ~IsNumber(NodeAt(h))
    ELSE Len(LookupPath)
\* the walk leaves the rule tree before the end of the path
LeavesTree ==
    /\ Looking /\ Consumed < Len(LookupPath)
    /\ NodeAt(Consumed) = Undefined \/ IsObject(NodeAt(Consumed))

\* C27: virtual lookup outside the rule tree. When the walk reaches Undefined
\* (or an interior node) before the path is consumed, dest receives data
\* indexed by the whole path; no rule is called, no instruction of a rule body
\* is run, and rule_cache, evaluated and cache_hits stay as they are.
C27_LookupOutsideTree ==
    [][LeavesTree =>
          /\ registers' = [registers EXCEPT ![LookingFor.dest + 1] = IndexPath(data, LookupPath)]
          /\ Continues
          /\ rule_cache' = rule_cache /\ evaluated' = evaluated /\ cache_hits' = cache_hits
          /\ calls' = calls /\ rule_runs' = rule_runs
          /\ call_rule_stack' = call_rule_stack
          /\ executed_instructions' = executed_instructions + 1]_vars

\* data.p.xs.c: the walk has left the rule tree below the interior node p;
\* dest holds data.p.xs.c = 4 and rule r is still the only rule called
C27_Witness ==
    /\ program = ProgOutside /\ status = "running" /\ pc = 6
    /\ registers[5] = Num(4) /\ Len(calls) = 1 /\ rule_cache[1] = <<TRUE, Bool(TRUE)>>

\* the rule leaves of the rule tree with their full paths from the "data" child
TreeLeaves ==
    LET all == Leaves(ValueIndex(Prog.rule_tree, Str("data")), <<>>)
    IN  {all[j] : j \in 1..Len(all)}
\* `evaluated` holds a result for full path fp: an entry under the key Undefined
StoredIn(cache, fp) ==
    LET at == IndexPath(cache, fp) IN at # Undefined /\ IsObject(at) /\ Undefined \in ObjKeys(at)
StoredValue(cache, fp) == ObjGet(IndexPath(cache, fp), Undefined)
NumStored(cache) == Cardinality({l \in TreeLeaves : StoredIn(cache, l.path)})
\* the leaves that the subobject traversals in progress have still to finish
RECURSIVE PendingVisits(_)
PendingVisits(fs) ==
    IF fs = <<>> THEN 0
    ELSE (IF fs[1].caller.kind = "sub" THEN Len(fs[1].caller.pending) ELSE 0)
            + PendingVisits(Tail(fs))
\* a lookup whose path ends on an interior node is about to be executed: the
\* leaves its traversal is to visit
StartsTraversal ==
    /\ Looking /\ Consumed = Len(LookupPath) /\ IsObject(NodeAt(Consumed))
Visited == Leaves(NodeAt(Len(LookupPath)), <<>>)

\* C28: path memoisation of the virtual lookup. Within one execution an entry
\* of `evaluated` (full path of a rule leaf, then the key Undefined) holds the
\* value of a call of the leaf's rule and, once stored, stays there with that
\* value; a completed traversal has stored an entry for every leaf it visited,
\* Undefined results included; each visit of a leaf either stores a new entry
\* or increases cache_hits by exactly 1, and cache_hits changes in no other
\* way; a traversal all of whose leaves are stored calls no rule, changes no
\* entry and sets every leaf's place in dest from the stored value.
C28_PathMemoisation ==
    /\ [](/\ \A l \in TreeLeaves :
                StoredIn(evaluated, l.path) =>
                   \E h \in 1..Len(calls) :
                      /\ calls[h].rule_index = l.node.v[1]
                      /\ calls[h].value = StoredValue(evaluated, l.path)
          /\ (JustLookedUp /\ WalkOf(LookedUp).consumed = Len(LookedUp.path_components)
                /\ IsObject(WalkOf(LookedUp).node)) =>
                \A l \in TreeLeaves :
                   (\E j \in 1..Len(Leaves(WalkOf(LookedUp).node, <<>>)) :
                       l.path = PathFrom(LookedUp, 0)
                                   \o Leaves(WalkOf(LookedUp).node, <<>>)[j].path)
                      => StoredIn(evaluated, l.path))
    /\ [][status # "idle" =>
            /\ \A l \in TreeLeaves :
                  StoredIn(evaluated, l.path) =>
                     /\ StoredIn(evaluated', l.path)
                     /\ StoredValue(evaluated', l.path) = StoredValue(evaluated, l.path)
            /\ cache_hits' + NumStored(evaluated') + PendingVisits(frames')
                  = cache_hits + NumStored(evaluated) + PendingVisits(frames)
                       + (IF StartsTraversal THEN Len(Visited) ELSE 0)
            /\ (/\ StartsTraversal
                /\ \A j \in 1..Len(Visited) : StoredIn(evaluated, LookupPath \o Visited[j].path))
                  => /\ calls' = calls /\ evaluated' = evaluated /\ frames' = frames
                     /\ rule_runs' = rule_runs /\ status' = "running"
                     /\ cache_hits' = cache_hits + Len(Visited)
                     /\ \A j \in 1..Len(Visited) :
                           IndexPath(registers'[LookingFor.dest + 1], Visited[j].path)
                              = StoredValue(evaluated, LookupPath \o Visited[j].path)]_vars

\* data.p has been looked up a second time: both leaves were answered from
\* `evaluated`, one of them with the stored Undefined
C28_Witness ==
    /\ status = "running" /\ frames = <<>> /\ pc = 3 /\ Prog.entry_points[1][1] = "main"
    /\ Prog.instructions[3].op = "VirtualDataDocumentLookup"
    /\ cache_hits = 2
    /\ StoredIn(evaluated, <<Str("p"), Str("a")>>)
    /\ StoredValue(evaluated, <<Str("p"), Str("a")>>) = Undefined
    /\ StoredValue(evaluated, <<Str("p"), Str("b")>>) = Bool(TRUE)

\* a value that may not occur in a rule tree: neither a rule index nor an object
BadNode(node) == node # Undefined /\ ~IsNumber(node) /\ ~IsObject(node)
\* a rule tree (or subtree) built of objects and rule-index leaves only
RECURSIVE WellFormed(_)
WellFormed(node) ==
    \/ IsNumber(node)
    \/ IsObject(node) /\ \A q \in node.v : WellFormed(q[2])
\* the rule-tree node after j components of path, and the number of
\* components after which the walk along path stops
NodeOn(path, j) == IndexPath(ValueIndex(Prog.rule_tree, Str("data")), SubSeq(path, 1, j))
Stops(path, j) == NodeOn(path, j) = Undefined \/ IsNumber(NodeOn(path, j))
StopOf(path) ==
    IF \E j \in 1..Len(path) : Stops(path, j)
    THEN CHOOSE j \in 1..Len(path) : Stops(path, j) /\ \A h \in 1..(j - 1) : ~Stops(path, h)
    ELSE Len(path)
\* the walk along path, or the traversal of the subtree it ends on, meets a
\* value that may not occur in a rule tree
MeetsBadNode(path) ==
    \/ \E j \in 0..StopOf(path) : BadNode(NodeOn(path, j))
    \/ /\ StopOf(path) = Len(path) /\ IsObject(NodeOn(path, Len(path)))
       /\ ~WellFormed(NodeOn(path, Len(path)))
\* the step raises InvalidRuleTreeEntry
RaisesInvalidRuleTreeEntry ==
    /\ Len(raised') = Len(raised) + 1
    /\ ErrName(raised'[Len(raised')]) = "InvalidRuleTreeEntry"

\* C29: InvalidRuleTreeEntry is raised by a virtual lookup exactly when the
\* walk or the subtree traversal meets a rule-tree value that is neither a
\* Number nor an Object. Over a rule tree built of objects and rule-index
\* leaves only, no step raises InvalidRuleTreeEntry (whatever the path: last
\* component absent from the tree, empty path); and no lookup whose walk or
\* traversal met a String, Bool, Null, Array or Set node is completed.
C29_InvalidRuleTreeEntry ==
    /\ [][WellFormed(ValueIndex(Prog.rule_tree, Str("data"))) => ~RaisesInvalidRuleTreeEntry]_vars
    /\ [](JustLookedUp => ~MeetsBadNode(PathFrom(LookedUp, 0)))

\* the step ends the whole execution with value val
EndsExecution(val) == status' = "returned" /\ frames' = <<>> /\ ret' = val
\* the step ends the run of a body or destructuring block of the rule call
\* in progress, and nothing else
EndsBodyRun ==
    /\ status' = "returned" /\ frames' = frames /\ frames # <<>>
    /\ call_rule_stack' = call_rule_stack /\ registers' = registers

\* C30: terminals. Halt ends the whole execution with the value of register
\* 0 and Return v ends it with registers[v]; RuleReturn and
\* DestructuringSuccess end only the innermost run of a body of the rule call
\* in progress: the rule driver then goes on (next body, next definition, or
\* back to the caller) and the execution is still running.
C30_Terminals ==
    [][/\ Dispatching("Halt") => EndsExecution(registers[1])
       /\ Dispatching("Return") => EndsExecution(registers[CurInstr.value + 1])
       /\ (Dispatching("RuleReturn") \/ Dispatching("DestructuringSuccess")) => EndsBodyRun
       /\ (status = "returned" /\ frames # <<>> /\ pc < NumInstructions
             /\ Prog.instructions[pc + 1].op \in {"RuleReturn", "DestructuringSuccess"}
             /\ ~IsErr(ret))
            => status' = "running"]_vars

\* the instruction at pc p makes rule calls
IsCall(p) ==
    Prog.instructions[p + 1].op \in {"CallRule", "FunctionCall", "VirtualDataDocumentLookup"}

\* the register the call instruction at pc p writes its result to
DestOf(p) ==
    LET i == Prog.instructions[p + 1]
    IN  CASE i.op = "CallRule" -> i.dest
          [] i.op = "FunctionCall" -> Prog.function_call_params[i.params_index + 1].dest
          [] OTHER -> Prog.virtual_data_document_lookup_params[i.params_index + 1].dest

\* this step starts the definitions of a rule / ends them and returns to the caller
EntersRule == status # "idle" /\ \E r \in 1..Len(rule_runs) : rule_runs'[r] > rule_runs[r]
RuleReturns ==
    /\ status = "returned" /\ frames # <<>>
    /\ Len(calls') > Len(calls) /\ calls'[Len(calls) + 1].how = "run"

\* the saved context of activation k is left alone by this step
ContextKept(k) ==
    /\ k <= Len(frames') /\ k <= Len(register_stack') /\ k <= Len(call_rule_stack')
    /\ register_stack'[k] = register_stack[k]
    /\ frames'[k].old_loop_stack = frames[k].old_loop_stack
    /\ frames'[k].old_comprehension_stack = frames[k].old_comprehension_stack
    /\ call_rule_stack'[k].return_pc = call_rule_stack[k].return_pc

\* C31: Frame of a rule call. (1) A step that starts a rule from a CallRule, a
\* FunctionCall or a lookup pushes the caller's registers (with the temporary
\* register of a subobject traversal), its loop stack, its comprehension stack
\* and the pc of the call instruction, one entry each. (2) No step taken while the
\* call is under way changes what was pushed. (3) The step in which the call
\* returns leaves every caller register other than dest as it was pushed, the
\* loop and comprehension stacks as they were pushed, register_stack and
\* call_rule_stack one entry shorter, the callee's window, emptied, on top of the
\* pool, and the dispatcher at the instruction after the call instruction,
\* whether the bodies succeeded, failed or raised errors. (4) A call answered
\* without running a rule changes dest only and goes on with the next instruction.
C31_CallFrame ==
    [][/\ (EntersRule /\ ~RuleReturns) =>
             LET kind == Last(frames').caller.kind
             IN  /\ IsCall(pc) /\ CurInstr.op # "VirtualDataDocumentLookup" <=> kind = "instr"
                 /\ frames' # <<>> /\ Front(frames') = frames
                 /\ register_stack' = Append(register_stack,
                        IF kind = "sub" THEN Append(registers, Undefined) ELSE registers)
                 /\ Last(frames').old_loop_stack = loop_stack
                 /\ Last(frames').old_comprehension_stack = comprehension_stack
                 /\ Len(call_rule_stack') = Len(call_rule_stack) + 1
                 /\ Front(call_rule_stack') = call_rule_stack
                 /\ Last(call_rule_stack').return_pc = pc
                 /\ register_window_pool' =
                        IF register_window_pool = <<>> THEN <<>> ELSE Front(register_window_pool)
       /\ status # "idle" =>
             \A k \in 1..(Len(frames) - (IF RuleReturns /\ ~EntersRule THEN 1 ELSE 0)) :
                ContextKept(k)
       /\ (RuleReturns /\ ~EntersRule) =>
             LET f == Last(frames)
                 return_pc == Last(call_rule_stack).return_pc
                 saved == IF f.caller.kind = "sub" THEN Front(Last(register_stack))
                          ELSE Last(register_stack)
             IN  /\ IsCall(return_pc)
                 /\ Len(registers') = Len(saved)
                 /\ \A r \in 1..Len(saved) : r # DestOf(return_pc) + 1 => registers'[r] = saved[r]
                 /\ loop_stack' = f.old_loop_stack
                 /\ comprehension_stack' = f.old_comprehension_stack
                 /\ register_stack' = Front(register_stack)
                 /\ call_rule_stack' = Front(call_rule_stack)
                 /\ frames' = Front(frames)
                 /\ register_window_pool' = Append(register_window_pool, <<>>)
                 /\ status' = "running" => pc' = return_pc + 1
                 /\ f.caller.kind = "instr" => status' = "running"
       /\ ((Dispatching("CallRule") \/ Dispatching("FunctionCall")
               \/ Dispatching("VirtualDataDocumentLookup"))
           /\ ~EntersRule /\ status' = "running") =>
             /\ Len(registers') = Len(registers)
             /\ \A r \in 1..Len(registers) : r # DestOf(pc) + 1 => registers'[r] = registers[r]
             /\ loop_stack' = loop_stack /\ comprehension_stack' = comprehension_stack
             /\ register_stack' = register_stack /\ call_rule_stack' = call_rule_stack
             /\ register_window_pool' = register_window_pool
             /\ pc' = pc + 1]_vars

\* the second f(v) of ProgFrame has returned into the loop and the comprehension
\* it was called from, after a body of f failed and a body of c raised an error
C31_Witness ==
    /\ Prog.entry_points[1][1] = "frame" /\ status = "running" /\ frames = <<>>
    /\ pc = 4 /\ Len(calls) = 5 /\ Last(calls).how = "run" /\ Last(calls).rule_index = 0
    /\ loop_stack # <<>> /\ comprehension_stack # <<>> /\ register_stack = <<>>
    /\ register_window_pool # <<>>
    /\ \E j \in 1..Len(raised) : ErrName(raised[j]) = "InvalidAddition"

\* the number of retained registers of the call under way after this step
Retained ==
    LET call == Prog.instructions[Last(call_rule_stack').return_pc + 1]
        rule_type == RuleInfos[Last(frames').rule_index + 1].rule_type
    IN  IF call.op = "FunctionCall"
        THEN Len(Prog.function_call_params[call.params_index + 1].args) + 1
        ELSE IF rule_type \in {"PartialSet", "PartialObject"} THEN 1 ELSE 0

\* the driver goes from one body of the call under way to a later one
NextBodyStarts ==
    /\ status = "returned" /\ frames # <<>> /\ ~RuleReturns
    /\ Len(frames') = Len(frames) /\ status' = "running"
    /\ <<Last(frames').def_idx, Last(frames').body_idx>>
          # <<Last(frames).def_idx, Last(frames).body_idx>>

\* the driver goes from a destructuring block to the body it belongs to
BodyAfterBlock ==
    /\ status = "returned" /\ frames # <<>> /\ Last(frames).phase = "destructuring"
    /\ Len(frames') = Len(frames) /\ Last(frames').phase = "body"
    /\ <<Last(frames').def_idx, Last(frames').body_idx>>
          = <<Last(frames).def_idx, Last(frames).body_idx>>

\* the first instruction the driver runs for body (def_idx, body_idx) of a rule
UnitStart(rule_info, def_idx, body_idx) ==
    IF def_idx < Len(rule_info.destructuring_blocks)
       /\ rule_info.destructuring_blocks[def_idx + 1] # NoIndex
    THEN rule_info.destructuring_blocks[def_idx + 1]
    ELSE rule_info.definitions[def_idx + 1][body_idx + 1]

\* C32: Register reset between bodies. Whenever the rule-definition driver starts
\* a body (at its destructuring block when the definition has one), the window has
\* the rule's declared number of registers and every register from R on holds
\* Undefined, R being N + 1 for a FunctionCall with N arguments, 1 for a PartialSet
\* or PartialObject rule and 0 for a Complete rule called without arguments; the
\* registers below R hold what the previous body of the call left in them, and at
\* the first body the return slot Undefined and the arguments. Between a
\* destructuring block and its body the window is left alone.
C32_RegisterReset ==
    [][/\ (EntersRule \/ NextBodyStarts) =>
             LET f == Last(frames')
                 rule_info == RuleInfos[f.rule_index + 1]
             IN  /\ pc' = UnitStart(rule_info, f.def_idx, f.body_idx)
                 /\ Len(registers') = rule_info.num_registers
                 /\ \A r \in Retained..(rule_info.num_registers - 1) :
                       registers'[r + 1] = Undefined
                 /\ NextBodyStarts =>
                       \A r \in 0..(Retained - 1) : registers'[r + 1] = registers[r + 1]
                 /\ EntersRule =>
                       /\ Retained > 0 => registers'[1] = Undefined
                       /\ ~RuleReturns =>
                             \A a \in 1..(Retained - 1) :
                                registers'[a + 1] =
                                   registers[Prog.function_call_params[
                                                CurInstr.params_index + 1].args[a] + 1]
       /\ BodyAfterBlock =>
             /\ registers' = registers
             /\ pc' = RuleInfos[Last(frames).rule_index + 1]
                         .definitions[Last(frames).def_idx + 1][Last(frames).body_idx + 1]]_vars

\* body 1 of f in ProgFrame starts: body 0 had left 9 in the argument register
\* and false in register 2
C32_Witness ==
    /\ Prog.entry_points[1][1] = "frame" /\ status = "running" /\ pc = 15
    /\ frames # <<>> /\ Last(frames).rule_index = 0 /\ Last(frames).body_idx = 1
    /\ Last(frames).outcomes # <<>>
    /\ registers = <<Undefined, Num(9), Undefined>>

\* the call under way after this step was made by a FunctionCall
ByFunctionCall == Prog.instructions[Last(call_rule_stack').return_pc + 1].op = "FunctionCall"

\* the registers holding the arguments of the FunctionCall under way after this step
ArgumentRegisters ==
    Prog.function_call_params[
        Prog.instructions[Last(call_rule_stack').return_pc + 1].params_index + 1].args

\* the callee's registers 1..N hold what the caller's argument registers held at
\* the call (the caller's window is on top of register_stack during the call)
ArgumentsInPlace ==
    \A a \in 1..Len(ArgumentRegisters) :
       registers'[a + 1] = Last(register_stack')[ArgumentRegisters[a] + 1]

\* C33: Function arguments. Whenever the driver starts a destructuring block or a
\* body of a function called by a FunctionCall with N argument registers, registers
\* 1..N of the callee's window hold the values the caller's argument registers had
\* at the call, whatever earlier bodies of the call wrote to them.
C33_FunctionArguments ==
    [][((EntersRule \/ NextBodyStarts \/ BodyAfterBlock) /\ ByFunctionCall)
          => ArgumentsInPlace]_vars

\* the empty container a comprehension of this mode starts with
EmptyOf(mode) ==
    CASE mode = "Set" -> SetOf({}) [] mode = "Array" -> Arr(<<>>) [] OTHER -> Obj({})

\* the register holds a container of the comprehension mode
HoldsModeOf(mode, x) ==
    CASE mode = "Set" -> IsSet(x) [] mode = "Array" -> IsArray(x) [] OTHER -> IsObject(x)

\* the collection c of a comprehension of this mode after key -> value was yielded
Yielded(mode, c, key, value) ==
    CASE mode = "Set" -> SetOf(c.v \cup {value})
      [] mode = "Array" -> Arr(c.v \o <<value>>)
      [] OTHER -> Obj({q \in c.v : q[1] # key} \cup {<<key, value>>})

\* the instruction raises InvalidIteration and changes no register and no stack
RaisesInvalidIteration ==
    /\ status' = "returned" /\ IsErr(ret') /\ ErrName(ret') = "InvalidIteration"
    /\ registers' = registers /\ comprehension_stack' = comprehension_stack
    /\ loop_stack' = loop_stack /\ register_stack' = register_stack
    /\ call_rule_stack' = call_rule_stack /\ frames' = frames

\* C34: ComprehensionYield adds the value to the collection register of the
\* innermost comprehension frame (set insertion, array append, object insertion
\* under the key register's value) and changes no other register and no stack; it
\* raises InvalidIteration when the frame's mode is Object and no key register is
\* given, or when the collection register does not hold a container of the frame's
\* mode. ComprehensionBegin writes the empty container of its mode to the
\* collection register, pushes one frame and goes on with the next instruction.
C34_ComprehensionYield ==
    [][/\ (Dispatching("ComprehensionYield") /\ comprehension_stack # <<>>) =>
             LET ctx == Last(comprehension_stack)
                 current == registers[ctx.collection_reg + 1]
                 value == registers[CurInstr.value_reg + 1]
                 key == IF CurInstr.key_reg = NoIndex THEN None
                        ELSE registers[CurInstr.key_reg + 1]
             IN  IF HoldsModeOf(ctx.mode, current)
                    /\ (ctx.mode = "Object" => CurInstr.key_reg # NoIndex)
                 THEN /\ registers' = [registers EXCEPT ![ctx.collection_reg + 1] =
                                          Yielded(ctx.mode, current, key, value)]
                      /\ comprehension_stack' = comprehension_stack
                      /\ Continues
                 ELSE RaisesInvalidIteration
       /\ Dispatching("ComprehensionBegin") =>
             LET params == Prog.comprehension_begin_params[CurInstr.params_index + 1]
             IN  /\ registers' = [registers EXCEPT ![params.collection_reg + 1] =
                                     EmptyOf(params.mode)]
                 /\ comprehension_stack' = Append(comprehension_stack,
                        [mode |-> params.mode, collection_reg |-> params.collection_reg,
                         comprehension_end |-> params.comprehension_end])
                 /\ Continues]_vars

\* the three nested comprehensions of ProgComprehension have been closed, with
\* input.x = 1: the array holds the yields in order, the set one 2, the object the
\* last value yielded under the key 1
C34_Witness ==
    /\ Prog.entry_points[1][1] = "nested" /\ status = "running" /\ pc = 17
    /\ comprehension_stack = <<>> /\ raised = <<>>
    /\ registers[2] = Arr(<<Num(2), Num(1), Num(2)>>)
    /\ registers[3] = SetOf({Num(1), Num(2)})
    /\ registers[4] = Obj({<<Num(1), Num(1)>>})

\* the frame on top of the comprehension stack is not the one pushed for the
\* comprehension that the ComprehensionEnd at pc closes
ForeignFrame ==
    /\ comprehension_stack # <<>>
    /\ Last(comprehension_stack).comprehension_end \notin {pc, pc + 1}

\* C35: ComprehensionEnd pops exactly the innermost comprehension frame;
\* ComprehensionEnd and ComprehensionYield executed with an empty comprehension
\* stack raise InvalidIteration and change no register and no stack; and
\* ComprehensionEnd raises InvalidIteration when the frame on top of the stack was
\* pushed for another comprehension (its recorded end address does not match).
C35_ComprehensionEnd ==
    [][/\ (Dispatching("ComprehensionEnd") /\ comprehension_stack # <<>> /\ ~ForeignFrame) =>
             /\ comprehension_stack' = Front(comprehension_stack)
             /\ registers' = registers
             /\ Continues
       /\ ((Dispatching("ComprehensionEnd") \/ Dispatching("ComprehensionYield"))
           /\ comprehension_stack = <<>>) => RaisesInvalidIteration
       /\ (Dispatching("ComprehensionEnd") /\ ForeignFrame) => RaisesInvalidIteration]_vars

\* the rule index the call instruction at pc names (for a lookup: the leaf its
\* literal path ends on), or NoIndex
CalledRule ==
    CASE CurInstr.op = "CallRule" -> CurInstr.rule_index
      [] CurInstr.op = "FunctionCall" ->
            Prog.function_call_params[CurInstr.params_index + 1].func_rule_index
      [] OTHER ->
            LET params == Prog.virtual_data_document_lookup_params[CurInstr.params_index + 1]
            IN  IF /\ \A j \in 1..Len(params.path_components) : params.path_components[j].lit
                   /\ IsU64(PathNode(params))
                THEN PathNode(params).v[1] ELSE NoIndex

\* no call frame and no register window is pushed, taken or returned
NothingPushed ==
    /\ frames' = frames /\ call_rule_stack' = call_rule_stack
    /\ register_stack' = register_stack /\ register_window_pool' = register_window_pool
    /\ loop_stack' = loop_stack /\ comprehension_stack' = comprehension_stack

\* C36: A rule with an empty definition list. A call of it (CallRule, FunctionCall
\* or a lookup ending on it) writes Undefined to dest whatever the rule's kind and
\* default literal, memoises Undefined for the rule unless it is a function rule,
\* pushes no call frame and no register window, and goes on with the next
\* instruction; a call of a rule index that is out of range raises
\* RuleIndexOutOfBounds with registers, rule_cache and stacks unchanged.
C36_EmptyDefinitions ==
    [][((Dispatching("CallRule") \/ Dispatching("FunctionCall")
            \/ Dispatching("VirtualDataDocumentLookup")) /\ CalledRule # NoIndex) =>
          /\ CalledRule >= Len(RuleInfos) =>
                /\ status' = "returned"
                /\ ret' = Err("RuleIndexOutOfBounds", <<CalledRule>>)
                /\ registers' = registers /\ rule_cache' = rule_cache
                /\ evaluated' = evaluated /\ pc' = pc
                /\ NothingPushed
          /\ (CalledRule < Len(RuleInfos) /\ RuleInfos[CalledRule + 1].definitions = <<>>) =>
                /\ registers' = [registers EXCEPT ![DestOf(pc) + 1] = Undefined]
                /\ rule_cache' =
                      IF RuleInfos[CalledRule + 1].function_info # NoIndex THEN rule_cache
                      ELSE [rule_cache EXCEPT ![CalledRule + 1] = <<TRUE, Undefined>>]
                /\ NothingPushed
                /\ Continues]_vars

\* the calls of ProgEmpty have been made: every dest holds Undefined, the four
\* rules that are no functions are memoised, no window was ever used
C36_Witness ==
    /\ Prog.entry_points[1][1] = "empty" /\ status = "running" /\ pc = 7
    /\ Len(calls) = 7 /\ raised = <<>>
    /\ \A r \in 2..7 : registers[r] = Undefined
    /\ rule_cache = << <<TRUE, Undefined>>, <<TRUE, Undefined>>, <<TRUE, Undefined>>,
                       <<FALSE, Undefined>>, <<TRUE, Undefined>> >>
    /\ register_window_pool = <<>> /\ frames = <<>>

\* the dispatcher fetches an instruction in this step (at whatever nesting depth)
Dispatches ==
    /\ status = "running" /\ pc < NumInstructions
    /\ executed_instructions < max_instructions

\* this step raises the limit error
LimitRaised ==
    /\ Len(raised') = Len(raised) + 1
    /\ ErrName(Last(raised')) = "InstructionLimitExceeded"

\* the counter during an execution: one more for every instruction dispatched,
\* the same in every other step; the limit error is raised with the counter at
\* max_instructions and the limit as its argument
Accounting ==
    /\ Dispatches => executed_instructions' = executed_instructions + 1
    /\ (status # "idle" /\ ~Dispatches) => executed_instructions' = executed_instructions
    /\ (status # "idle" /\ LimitRaised) =>
          /\ executed_instructions = max_instructions
          /\ Last(raised') = Err("InstructionLimitExceeded", <<max_instructions>>)
    /\ (status # "idle" /\ max_instructions = 0) => executed_instructions' = 0

\* C37: Budget accounting. In every reachable state executed_instructions <=
\* max_instructions; the counter is increased by exactly 1 for each instruction
\* dispatched at any nesting depth and is never decreased or reset during an
\* execution; with max_instructions = k exactly k instructions are dispatched
\* before the limit error is raised, and max_instructions = 0 dispatches none.
C37_BudgetAccounting ==
    /\ [](executed_instructions <= max_instructions)
    /\ [][Accounting]_vars

\* C37 with the bound stated for the states of an execution: between two
\* executions the host may lower max_instructions below the count the last
\* execution has left in the VM
C37_BudgetAccountingInExecution ==
    /\ [](status # "idle" => executed_instructions <= max_instructions)
    /\ [][Accounting]_vars

\* the limit error has just been raised inside a rule body, after exactly
\* max_instructions = 3 instructions
C37_Witness ==
    /\ status = "returned" /\ frames # <<>> /\ IsErr(ret)
    /\ ErrName(ret) = "InstructionLimitExceeded"
    /\ max_instructions = 3 /\ executed_instructions = 3

\* C38: Isolated iteration context per body. Whenever the rule-definition driver
\* starts a destructuring block or a body, loop_stack and comprehension_stack are
\* empty, also when an earlier body of the same call ended with a failure or an
\* error inside a loop or a comprehension; so a condition that fails in a body
\* outside of the body's own loops is never routed to a loop frame.
C38_IsolatedIteration ==
    [][(EntersRule \/ NextBodyStarts \/ BodyAfterBlock) =>
          /\ loop_stack' = <<>>
          /\ comprehension_stack' = <<>>]_vars

\* the step in which a host call returns
HostCallReturns == status # "idle" /\ status' = "idle"

\* C39: Termination. Every execute / execute_entry_point_* call that has been
\* entered eventually returns, whatever the program does (backward jumps
\* through loops, loop bodies that overwrite the loop's key or value register,
\* nested rule calls) and whatever the budget is; it returns a value or an
\* error, and by then at most max_instructions instructions were dispatched.
C39_Termination ==
    /\ (status # "idle") ~> (status = "idle")
    /\ [][HostCallReturns =>
             /\ ret' # None
             /\ executed_instructions' <= max_instructions']_vars

\* the budget ran out after a backward jump of a loop: the call has returned
\* InstructionLimitExceeded with every instruction of the budget dispatched
C39_Witness ==
    /\ status = "idle" /\ IsErr(ret) /\ ErrName(ret) = "InstructionLimitExceeded"
    /\ max_instructions > 0 /\ executed_instructions = max_instructions
    /\ loop_stack # <<>> /\ Last(loop_stack).total_iterations >= 1

\* the frame f is the one a LoopStart with the parameters p pushes
FrameOf(f, p) ==
    /\ f.mode = p.mode /\ f.key_reg = p.key_reg /\ f.value_reg = p.value_reg
    /\ f.result_reg = p.result_reg
    /\ f.body_start = p.body_start /\ f.loop_end = p.loop_end
    /\ f.loop_next_pc = p.loop_end - 1

\* the innermost frame is the frame of the loop the LoopNext at pc closes
OwnFrame ==
    /\ loop_stack # <<>>
    /\ Last(loop_stack).loop_next_pc = pc
    /\ Last(loop_stack).loop_end = CurInstr.loop_end
    /\ Last(loop_stack).body_start = CurInstr.body_start

\* the steps that enter, repeat and leave a loop keep the stack balanced
LoopBalance ==
    /\ (Dispatching("LoopStart") /\ status' = "running") =>
          LET p == Prog.loop_params[CurInstr.params_index + 1]
          IN  \/ /\ loop_stack' = loop_stack
                 /\ pc' = p.loop_end
              \/ /\ Len(loop_stack') = Len(loop_stack) + 1
                 /\ Front(loop_stack') = loop_stack
                 /\ FrameOf(Last(loop_stack'), p)
                 /\ pc' = p.body_start
    /\ Dispatching("LoopNext") =>
          /\ OwnFrame
          /\ status' = "running" =>
                \/ /\ loop_stack' = Front(loop_stack)
                   /\ pc' = CurInstr.loop_end
                \/ /\ Len(loop_stack') = Len(loop_stack)
                   /\ Front(loop_stack') = Front(loop_stack)
                   /\ FrameOf(Last(loop_stack'), Last(loop_stack))
                   /\ pc' = CurInstr.body_start
    /\ (ConditionFailsInLoop /\ Last(loop_stack).mode = "Every") =>
          /\ loop_stack' = Front(loop_stack)
          /\ pc' = Last(loop_stack).loop_end

====
